---- MODULE Spec2Model ----
(***************************************************************************)
(* Model of the live-chat-to-avatar bridge of picoclaw:                    *)
(*   - the avatar channel   (pkg/channels/aituber.go)                      *)
(*   - the ingestion channel (YouTubeChannel, the 1412-line youtube.go)    *)
(* Strings are sequences of one-character strings, so that indexing,       *)
(* slicing, lower-casing and trimming are computed as the Go code does.    *)
(***************************************************************************)
EXTENDS Integers, Sequences, FiniteSets, TLC

VARIABLES
    \* ---- parseEmotion harness (one call of the pure function) ----
    pContent,      \* argument content
    pDefault,      \* argument defaultEmotion
    pResult,       \* <<text, emotion>> returned, or <<>> before the call
    \* ---- AITuberChannel ----
    config,        \* config.AITuberConfig: [DefaultEmotion, MaxQueueSize]
    queueSize,     \* cap(c.sendQueue), fixed by NewAITuberChannel
    clients,       \* c.clients (set of registered connections)
    sendQueue,     \* c.sendQueue (buffered channel, FIFO)
    ttsDone,       \* c.ttsDone (buffered channel of capacity 1): 0 or 1 token
    aRunning,      \* BaseChannel.running of the avatar channel
    aPhase,        \* "created" | "started" | "stopped"
    ctxDone,       \* c.ctx has been cancelled
    serverUp,      \* the HTTP server accepts upgrades
    conn,          \* per connection: "absent" | "none" | "upgraded" | "open" | "closed"
    rpump,         \* per connection: readPump goroutine "none" | "reading" | "done"
    wpc,           \* sendWorker: "off" | "select" | "bcast" | "wait" | "done"
    wmsg,          \* payload held by the sendWorker between dequeue and broadcast
    spc,           \* per Send call site: "idle" | "drop" | "put"
    smsg,          \* payload held by a Send in its overflow branch
    \* ---- observations of the avatar channel (history) ----
    sendLog,       \* texts in the order Send enqueued them
    delivered,     \* one record per broadcastJSON call of the sendWorker
    since,         \* what happened since the last broadcast that reached a client
    nCalls,        \* number of Send calls begun
    overlap,       \* some Send call began while another was in progress
    sentEarly,     \* some Send call began before Start ran
    firstClient,   \* what held when the first client was registered
    \* ---- YouTubeChannel ----
    yt,            \* the YouTubeChannel object, its contexts and its goroutines
    yPhase,        \* "created" | "started" | "stopped": last Start/Stop that returned
    \* ---- preFilter harness (one call of the pure function) ----
    fConfig,       \* the filter fields of config.YouTubeConfig
    fItems,        \* argument items
    fOut,          \* [done, items]: the slice returned
    \* ---- selectComments harness (one call) ----
    sConfig,       \* [MaxCommentsPerPoll, SelectionStrategy]
    sMsgs,         \* argument msgs (the caller's slice)
    sOut,          \* [done, msgs]: the slice returned
    \* ---- YouTubeChannel: comment accumulation (appendToBuffer, flushLoop) ----
    acc,           \* buffer, notify channel, flushLoop position, clock, last batch
    \* ---- YouTubeChannel: the two page-token cursors and their poll tasks ----
    tok,           \* nextPageToken, superChatPageToken, the tasks and their requests
    \* ---- handleAPIError harness (one call) ----
    api,           \* [err, done, ended]: the argument and the value returned
    \* ---- YouTubeChannel.Send (replies of the agent) ----
    snd,           \* [cfg, outbound, calls, last, ret]: the bus side of Send
    \* ---- NewYouTubeChannel harness (one call) ----
    ctor,          \* [cfg, done, err, config]: the argument, the error and the stored config
    \* ---- YouTubeChannel.reconnectLoop (one run) ----
    rc,            \* interval, rssOnly, position, and what the run has done so far
    \* ---- YouTubeChannel: a REST polling session in accumulation mode ----
    ses,           \* the channel fields, its poll tasks, the comment buffer and its drains
    \* ---- dispatch harness (one dispatch of the selected comments) ----
    dsp,           \* [AllowFrom, BatchComments, path, selected, inbound, done]
    \* ---- scrape poll loop (innerTubePollLoop) ----
    itl,           \* [APIKey, liveChatID, pc, consecutiveErrors, cancel, ctxDone, running, fetched, events]
    \* ---- scrape session with the super-chat sub-poll ----
    sc,            \* [liveChatID, nextPageToken, superChatPageToken, running, ctxDone, main, flush, sub, stopped, mainFetches, published]
    \* ---- fetchInnerTubeChat and its helper goroutines ----
    ft,            \* [innerContinuation, ctxDone, pc, helpers, returns]
    \* ---- initInnerTube (scrape initialization with retries) ----
    ini,           \* [pc, attempt, remaining, ctxDone, parses, lateParses, overslept]
    \* ---- accumulation across the scrape-to-REST fallback ----
    fb,            \* [transport, ctx, cancelled, commentBuffer, commentNotify, loops, appended]
    \* ---- live chat id of the resolved video ----
    lcv            \* [config, VideoID, liveChatID, pc, sub, streams, queries]

parseVars  == <<pContent, pDefault, pResult>>
avatarVars == <<config, queueSize, clients, sendQueue, ttsDone, aRunning, aPhase,
                ctxDone, serverUp, conn, rpump, wpc, wmsg, spc, smsg,
                sendLog, delivered, since, nCalls, overlap, sentEarly,
                firstClient>>
ytVars     == <<yt, yPhase>>
filterVars == <<fConfig, fItems, fOut>>
selectVars == <<sConfig, sMsgs, sOut>>
auxVars    == <<api, snd, ctor, rc, ses, dsp, itl, sc, ft, ini, fb, lcv>>
restVars   == <<filterVars, selectVars, acc, tok, auxVars>>
coreVars   == <<parseVars, avatarVars, ytVars, filterVars, selectVars, acc, tok>>
vars == <<parseVars, avatarVars, ytVars, restVars>>

\* a step of the handleAPIError harness leaves every other component alone
ApiSame == UNCHANGED <<coreVars, snd, ctor, rc, ses, dsp, itl, sc, ft, ini, fb, lcv>>

\* a step of YouTubeChannel.Send leaves every other component alone
SendSame == UNCHANGED <<coreVars, api, ctor, rc, ses, dsp, itl, sc, ft, ini, fb, lcv>>

\* a step of the NewYouTubeChannel harness leaves every other component alone
CtorSame == UNCHANGED <<coreVars, api, snd, rc, ses, dsp, itl, sc, ft, ini, fb, lcv>>

\* a step of reconnectLoop leaves every other component alone
ReconnectSame == UNCHANGED <<coreVars, api, snd, ctor, ses, dsp, itl, sc, ft, ini, fb, lcv>>

\* a step of the REST polling session leaves every other component alone
SessionSame == UNCHANGED <<coreVars, api, snd, ctor, rc, dsp, itl, sc, ft, ini, fb, lcv>>

\* a step of the dispatch harness leaves every other component alone
DispatchSame == UNCHANGED <<coreVars, api, snd, ctor, rc, ses, itl, sc, ft, ini, fb, lcv>>

\* a step of the scrape poll loop leaves every other component alone
InnerTubeSame == UNCHANGED <<coreVars, api, snd, ctor, rc, ses, dsp, sc, ft, ini, fb, lcv>>

\* a step of the scrape session with the super-chat sub-poll leaves every other component alone
SuperChatSame == UNCHANGED <<coreVars, api, snd, ctor, rc, ses, dsp, itl, ft, ini, fb, lcv>>

\* a step of the scrape fetch leaves every other component alone
FetchSame == UNCHANGED <<coreVars, api, snd, ctor, rc, ses, dsp, itl, sc, ini, fb, lcv>>

\* a step of the scrape initialization leaves every other component alone
InitTubeSame == UNCHANGED <<coreVars, api, snd, ctor, rc, ses, dsp, itl, sc, ft, fb, lcv>>

\* a step of the accumulation across the fallback leaves every other component alone
HandoverSame == UNCHANGED <<coreVars, api, snd, ctor, rc, ses, dsp, itl, sc, ft, ini, lcv>>

\* a step of the live chat id across streams leaves every other component alone
FreshSame == UNCHANGED <<coreVars, api, snd, ctor, rc, ses, dsp, itl, sc, ft, ini, fb>>

-----------------------------------------------------------------------------
(* Bounds of the model *)

MaxTextLen == 3     \* longest free text appended to a prefix in parseEmotion inputs
MaxSends   == 3     \* Send calls on the avatar channel
MaxQueueSizeCfg == 2  \* largest configured max_queue_size

-----------------------------------------------------------------------------
(* Strings *)

Min(a, b) == IF a < b THEN a ELSE b

\* unicode.IsSpace restricted to the characters of the model
IsSpace(ch) == ch \in {" ", "\t", "\n"}

\* strings.ToLower on the characters of the model
ToLowerCh(ch) ==
    CASE ch = "A" -> "a" [] ch = "D" -> "d" [] ch = "H" -> "h"
      [] ch = "P" -> "p" [] ch = "S" -> "s" [] ch = "Y" -> "y"
      [] OTHER -> ch

ToLower(s) == [i \in 1..Len(s) |-> ToLowerCh(s[i])]

\* strings.Index(s, ch) for a one-character needle: 0-based index, -1 if absent
RECURSIVE IndexFrom(_, _, _)
IndexFrom(s, ch, i) ==
    IF i > Len(s) THEN -1
    ELSE IF s[i] = ch THEN i - 1
    ELSE IndexFrom(s, ch, i + 1)

Index(s, ch) == IndexFrom(s, ch, 1)

\* Go slice s[lo:hi] with 0-based bounds
Slice(s, lo, hi) == SubSeq(s, lo + 1, hi)

RECURSIVE TrimLeft(_)
TrimLeft(s) ==
    IF s # <<>> /\ IsSpace(Head(s)) THEN TrimLeft(Tail(s)) ELSE s

RECURSIVE TrimRight(_)
TrimRight(s) ==
    IF s # <<>> /\ IsSpace(s[Len(s)]) THEN TrimRight(SubSeq(s, 1, Len(s) - 1)) ELSE s

\* a variant that trims nothing
TrimNothing(s) == s

\* strings.TrimSpace: leading and trailing white space removed
TrimSpace(s) == TrimRight(TrimLeft(s))

-----------------------------------------------------------------------------
(* Emotions *)

neutral   == <<"n","e","u","t","r","a","l">>
happy     == <<"h","a","p","p","y">>
sad       == <<"s","a","d">>
angry     == <<"a","n","g","r","y">>
relaxed   == <<"r","e","l","a","x","e","d">>
surprised == <<"s","u","r","p","r","i","s","e","d">>
excited   == <<"e","x","c","i","t","e","d">>   \* not a recognised emotion

\* a variant that forgets one tag
validEmotionsNoSad == {neutral, happy, angry, relaxed, surprised}

validEmotions == {neutral, happy, sad, angry, relaxed, surprised}

\* parseEmotion(content, defaultEmotion) = <<text, emotion>>
parseEmotion(content, defaultEmotion) ==
    LET d   == IF defaultEmotion = <<>> THEN neutral ELSE defaultEmotion
        end == Index(content, "]")
        tag == ToLower(Slice(content, 1, end))
    IN  IF Len(content) > 2 /\ content[1] = "[" /\ end > 0 /\ tag \in validEmotions
        THEN <<TrimSpace(Slice(content, end + 1, Len(content))), tag>>
        ELSE <<content, d>>

-----------------------------------------------------------------------------
(* Inputs of the parseEmotion harness *)

RECURSIVE SeqsUpTo(_, _)
SeqsUpTo(S, n) ==
    IF n = 0 THEN {<<>>}
    ELSE LET shorter == SeqsUpTo(S, n - 1)
         IN  shorter \cup {Append(t, x) : t \in {u \in shorter : Len(u) = n - 1}, x \in S}

TextAlphabet == {" ", "x", "[", "]"}
Texts == SeqsUpTo(TextAlphabet, MaxTextLen)

Bracket(tag) == <<"[">> \o tag \o <<"]">>

Prefixes ==
    {<<>>}
    \cup {Bracket(e) : e \in {neutral, happy, sad, angry, relaxed, surprised}}
    \cup { Bracket(<<"H","A","P","P","Y">>),       \* upper case
           Bracket(<<"S","a","d">>),               \* mixed case
           Bracket(excited),                       \* unknown tag
           Bracket(<<" ">> \o happy),              \* blank inside the brackets
           <<"[">> \o happy,                       \* no closing bracket yet
           <<" ">> \o Bracket(happy) }             \* tag not at the front

Contents == {p \o t : p \in Prefixes, t \in Texts}

DefaultEmotions == {<<>>, relaxed, excited}

-----------------------------------------------------------------------------
(* The parseEmotion harness: one call on inputs drawn from the bounded sets *)

ParseCall ==
    /\ pResult = <<>>
    /\ pResult' = parseEmotion(pContent, pDefault)
    /\ UNCHANGED <<pContent, pDefault, avatarVars, ytVars, restVars>>

-----------------------------------------------------------------------------
(* AITuberChannel *)

Conns   == {"c1", "c2"}     \* connections a browser may open
Senders == {"s1", "s2"}     \* goroutines that call Send

defaultQueueSize == 10

\* NewAITuberChannel: queueSize := cfg.MaxQueueSize, 10 when that is <= 0
NewQueueSize(cfg) ==
    IF cfg.MaxQueueSize <= 0 THEN defaultQueueSize ELSE cfg.MaxQueueSize

Digits == <<"1", "2", "3", "4", "5", "6", "7", "8", "9">>

\* the text that identifies the i-th message
MsgName(i) == <<"m", Digits[i]>>

\* msg.Content of the i-th Send call: tagged, untagged and unknown tag in turn
MsgContent(i) ==
    CASE i % 3 = 1 -> Bracket(happy) \o <<" ">> \o MsgName(i)
      [] i % 3 = 2 -> MsgName(i)
      [] OTHER     -> Bracket(excited) \o MsgName(i)

\* the text parseEmotion leaves of the i-th message
MsgText(i) == parseEmotion(MsgContent(i), <<>>)[1]

\* Send, lines 138-144: the wire payload built from msg.Content
MakePayload(content, cfg) ==
    LET r == parseEmotion(content, cfg.DefaultEmotion)
    IN  [Text |-> r[1], Role |-> "assistant", Emotion |-> r[2], Type |-> "message"]

\* a variant that discards the newest queued payload
DropNewest(q) == SubSeq(q, 1, Len(q) - 1)

\* <-c.sendQueue in Send's default branch: the oldest queued payload leaves
DropOldest(q) == Tail(q)

NoSince == [tts |-> FALSE, timeout |-> FALSE, noClient |-> FALSE]

\* history: the clients set became empty
NoteClients(cl) == IF cl = {} THEN [since EXCEPT !.noClient = TRUE] ELSE since

WorkerConsumed == delivered # <<>> \/ wpc = "bcast"

\* Start: context, mux, server, setRunning(true), go sendWorker
Start ==
    /\ aPhase = "created"
    /\ aPhase' = "started"
    /\ aRunning' = TRUE
    /\ serverUp' = TRUE
    /\ wpc' = "select"
    /\ UNCHANGED <<parseVars, ytVars, restVars, config, queueSize, clients, sendQueue, ttsDone, ctxDone,
                   conn, rpump, wmsg, spc, smsg, sendLog, delivered, since, nCalls, overlap, sentEarly,
                   firstClient>>

\* a variant that leaves the registered connections open
CloseNone(cl, cn) == cn

\* Stop, lines 126-129: conn.Close() for every registered connection
CloseAll(cl, cn) == [c \in Conns |-> IF c \in cl THEN "closed" ELSE cn[c]]

\* Stop: cancel, server.Shutdown, close and forget every client, setRunning(false)
Stop ==
    /\ ctxDone' = (ctxDone \/ aPhase # "created")
    /\ serverUp' = FALSE
    /\ conn' = CloseAll(clients, conn)
    /\ clients' = {}
    /\ aRunning' = FALSE
    /\ aPhase' = IF aPhase = "created" THEN "created" ELSE "stopped"
    /\ since' = NoteClients({})
    /\ UNCHANGED <<parseVars, ytVars, restVars, config, queueSize, sendQueue, ttsDone, rpump, wpc, wmsg,
                   spc, smsg, sendLog, delivered, nCalls, overlap, sentEarly,
                   firstClient>>

\* handleWS, line 156: the upgrade succeeds
Upgrade(c) ==
    /\ serverUp
    /\ conn[c] = "none"
    /\ conn' = [conn EXCEPT ![c] = "upgraded"]
    /\ UNCHANGED <<parseVars, ytVars, restVars, config, queueSize, clients, sendQueue, ttsDone, aRunning,
                   aPhase, ctxDone, serverUp, rpump, wpc, wmsg, spc, smsg, sendLog,
                   delivered, since, nCalls, overlap, sentEarly, firstClient>>

\* handleWS, lines 164-174: register the connection, go readPump
Register(c) ==
    /\ conn[c] = "upgraded"
    /\ conn' = [conn EXCEPT ![c] = "open"]
    /\ clients' = clients \cup {c}
    /\ rpump' = [rpump EXCEPT ![c] = "reading"]
    /\ firstClient' =
          IF firstClient.conn = "none"
          THEN [conn |-> c, sends |-> Len(sendLog),
                quiet |-> ~WorkerConsumed /\ \A s \in Senders : spc[s] = "idle"]
          ELSE firstClient
    /\ UNCHANGED <<parseVars, ytVars, restVars, config, queueSize, sendQueue, ttsDone, aRunning, aPhase,
                   ctxDone, serverUp, wpc, wmsg, spc, smsg, sendLog, delivered, since,
                   nCalls, overlap, sentEarly>>

\* readPump, lines 215-221: a tts_complete frame arrives; non-blocking signal
ReadTTSComplete(c) ==
    /\ rpump[c] = "reading"
    /\ conn[c] = "open"
    /\ ttsDone' = 1
    /\ since' = [since EXCEPT !.tts = TRUE]
    /\ UNCHANGED <<parseVars, ytVars, restVars, config, queueSize, clients, sendQueue, aRunning, aPhase,
                   ctxDone, serverUp, conn, rpump, wpc, wmsg, spc, smsg, sendLog,
                   delivered, nCalls, overlap, sentEarly, firstClient>>

\* readPump, lines 206-213 and 193-203: a read error ends the pump, which
\* unregisters and closes its connection
ReadError(c) ==
    /\ rpump[c] = "reading"
    /\ rpump' = [rpump EXCEPT ![c] = "done"]
    /\ clients' = clients \ {c}
    /\ conn' = [conn EXCEPT ![c] = "closed"]
    /\ since' = IF c \in clients THEN NoteClients(clients \ {c}) ELSE since
    /\ UNCHANGED <<parseVars, ytVars, restVars, config, queueSize, sendQueue, ttsDone, aRunning, aPhase,
                   ctxDone, serverUp, wpc, wmsg, spc, smsg, sendLog, delivered, nCalls, overlap,
                   sentEarly, firstClient>>

\* Send, lines 138-146: build the payload; the select takes its first case when
\* the queue has room, its default case (receive-then-send follows) otherwise
SendSelect(s) ==
    /\ spc[s] = "idle"
    /\ nCalls < MaxSends
    /\ nCalls' = nCalls + 1
    /\ overlap' = (overlap \/ \E o \in Senders : spc[o] # "idle")
    /\ sentEarly' = (sentEarly \/ aPhase = "created")
    /\ LET m == MakePayload(MsgContent(nCalls + 1), config)
       IN  IF Len(sendQueue) < queueSize
           THEN /\ sendQueue' = Append(sendQueue, m)
                /\ sendLog' = Append(sendLog, m.Text)
                /\ UNCHANGED <<spc, smsg>>
           ELSE /\ spc' = [spc EXCEPT ![s] = "drop"]
                /\ smsg' = [smsg EXCEPT ![s] = m]
                /\ UNCHANGED <<sendQueue, sendLog>>
    /\ UNCHANGED <<parseVars, ytVars, restVars, config, queueSize, clients, ttsDone, aRunning, aPhase,
                   ctxDone, serverUp, conn, rpump, wpc, wmsg, delivered, since,
                   firstClient>>

\* Send, line 148: <-c.sendQueue, a blocking receive
SendDrop(s) ==
    /\ spc[s] = "drop"
    /\ sendQueue # <<>>
    /\ sendQueue' = DropOldest(sendQueue)
    /\ spc' = [spc EXCEPT ![s] = "put"]
    /\ UNCHANGED <<parseVars, ytVars, restVars, config, queueSize, clients, ttsDone, aRunning, aPhase,
                   ctxDone, serverUp, conn, rpump, wpc, wmsg, smsg, sendLog, delivered,
                   since, nCalls, overlap, sentEarly, firstClient>>

\* Send, line 149: c.sendQueue <- m, a blocking send
SendPut(s) ==
    /\ spc[s] = "put"
    /\ Len(sendQueue) < queueSize
    /\ sendQueue' = Append(sendQueue, smsg[s])
    /\ sendLog' = Append(sendLog, smsg[s].Text)
    /\ spc' = [spc EXCEPT ![s] = "idle"]
    /\ smsg' = [smsg EXCEPT ![s] = <<>>]
    /\ UNCHANGED <<parseVars, ytVars, restVars, config, queueSize, clients, ttsDone, aRunning, aPhase,
                   ctxDone, serverUp, conn, rpump, wpc, wmsg, delivered, since, nCalls, overlap,
                   sentEarly, firstClient>>

\* sendWorker, line 231: msg := <-c.sendQueue
WorkerDequeue ==
    /\ wpc = "select"
    /\ sendQueue # <<>>
    /\ wmsg' = Head(sendQueue)
    /\ sendQueue' = Tail(sendQueue)
    /\ wpc' = "bcast"
    /\ UNCHANGED <<parseVars, ytVars, restVars, config, queueSize, clients, ttsDone, aRunning, aPhase,
                   ctxDone, serverUp, conn, rpump, spc, smsg, sendLog, delivered, since,
                   nCalls, overlap, sentEarly, firstClient>>

\* a variant that forgets every client when one write fails
RemainingNone(cl, failed) == IF failed = {} THEN cl ELSE {}

\* broadcastJSON, lines 263-274: the connections written to successfully, which
\* are the ones that stay registered
Remaining(cl, failed) == cl \ failed

\* a variant that waits for tts_complete alone
AfterBroadcastNoTimer(sent) == IF sent = 0 THEN "select" ELSE "blocked"

\* the sendWorker's position after broadcastJSON returned sent
AfterBroadcast(sent) == IF sent = 0 THEN "select" ELSE "wait"

\* sendWorker, lines 232-235, with broadcastJSON: under the write lock every
\* registered connection is written to; the failing ones are closed and removed
WorkerBroadcast ==
    /\ wpc = "bcast"
    /\ \E failed \in SUBSET clients :
          LET to == Remaining(clients, failed)
          IN  /\ clients' = to
              /\ conn' = [c \in Conns |-> IF c \in failed THEN "closed" ELSE conn[c]]
              /\ delivered' = Append(delivered,
                    [text |-> wmsg.Text, to |-> to])
              /\ since' = IF to = {} THEN NoteClients(to) ELSE NoSince
              /\ wpc' = AfterBroadcast(Cardinality(to))
    /\ wmsg' = <<>>
    /\ UNCHANGED <<parseVars, ytVars, restVars, config, queueSize, sendQueue, ttsDone, aRunning, aPhase,
                   ctxDone, serverUp, rpump, spc, smsg, sendLog, nCalls, overlap, sentEarly, firstClient>>

\* sendWorker, line 237: <-c.ttsDone
WorkerTTSDone ==
    /\ wpc = "wait"
    /\ ttsDone = 1
    /\ ttsDone' = 0
    /\ wpc' = "select"
    /\ UNCHANGED <<parseVars, ytVars, restVars, config, queueSize, clients, sendQueue, aRunning, aPhase,
                   ctxDone, serverUp, conn, rpump, wmsg, spc, smsg, sendLog, delivered,
                   since, nCalls, overlap, sentEarly, firstClient>>

\* sendWorker, lines 238-239: 30 s passed without a signal
WorkerTimeout ==
    /\ wpc = "wait"
    /\ wpc' = "select"
    /\ since' = [since EXCEPT !.timeout = TRUE]
    /\ UNCHANGED <<parseVars, ytVars, restVars, config, queueSize, clients, sendQueue, ttsDone, aRunning,
                   aPhase, ctxDone, serverUp, conn, rpump, wmsg, spc, smsg, sendLog,
                   delivered, nCalls, overlap, sentEarly, firstClient>>

\* sendWorker, lines 229-230 and 240-241: <-ctx.Done()
WorkerCtxDone ==
    /\ wpc \in {"select", "wait"}
    /\ ctxDone
    /\ wpc' = "done"
    /\ UNCHANGED <<parseVars, ytVars, restVars, config, queueSize, clients, sendQueue, ttsDone, aRunning,
                   aPhase, ctxDone, serverUp, conn, rpump, wmsg, spc, smsg, sendLog,
                   delivered, since, nCalls, overlap, sentEarly, firstClient>>

-----------------------------------------------------------------------------
(* YouTubeChannel: Start, Stop, the poll loops and the reconnect loop.      *)
(* Configurations have superchat_poll_seconds = 0 and accumulate_comments   *)
(* = false, so connectToLiveChat launches the main polling task only.       *)
(* A context is a number; 0 is the nil context / nil cancel function.       *)

MaxStarts    == 2   \* Start calls on one YouTubeChannel
MaxConnects  == 2   \* connectToLiveChat calls
MaxPublished == 1   \* InboundMessages published on the bus

innerTubeMaxConsecutiveErrors == 5
youtubeReconnectInterval      == 60
youtubeMaxReconnectInterval   == 300

RootCtx == 1        \* the context the application passes to Start

\* a goroutine of the channel; fields a kind does not use keep these values
NewTask(kind, ctx) ==
    [kind |-> kind, ctx |-> ctx,
     pc |-> IF kind = "reconnect" THEN "wait" ELSE "fetch",
     got |-> "", consecutiveErrors |-> 0, rssOnly |-> FALSE,
     interval |-> IF kind = "reconnect" THEN youtubeReconnectInterval ELSE 0]

\* a goroutine that has returned
DoneTask ==
    [kind |-> "gone", ctx |-> 0, pc |-> "done", got |-> "",
     consecutiveErrors |-> 0, rssOnly |-> FALSE, interval |-> 0]

\* NewYouTubeChannel: chat_source defaults to innertube, data_api needs an api
\* key, and video_id or channel_id must be set; live_chat_id is read in
\* data_api mode only (superchat_poll_seconds = 0)
YouTubeConfigs ==
    {cfg \in [ChatSource : {"innertube", "data_api"}, APIKey : {"", "key"},
              ChannelID : {"", "UC"}, VideoID : {"", "vid"}, LiveChatID : {"", "lc"}] :
        /\ ~(cfg.ChatSource = "data_api" /\ cfg.APIKey = "")
        /\ ~(cfg.VideoID = "" /\ cfg.ChannelID = "")
        /\ ~(cfg.ChatSource = "innertube" /\ cfg.LiveChatID # "")}

NewYouTubeChannel(cfg) ==
    [config |-> cfg, liveChatID |-> "", nextPageToken |-> "", running |-> FALSE,
     cancel |-> 0, reconnectCancel |-> 0, parentCtx |-> 0,
     ctxParent |-> <<0>>, cancelled |-> {}, tasks |-> <<>>,
     published |-> 0, connects |-> 0, starts |-> 0]

\* d is c or was derived from c by context.WithCancel
RECURSIVE Descends(_, _, _)
Descends(par, d, c) ==
    IF d = 0 THEN FALSE ELSE d = c \/ Descends(par, par[d], c)

\* calling the cancel function of context c (0: the nil check failed)
CancelCtx(y, c) ==
    IF c = 0 THEN y
    ELSE [y EXCEPT !.cancelled =
            @ \cup {d \in 1..Len(y.ctxParent) : Descends(y.ctxParent, d, c)}]

NewCtxId(y) == Len(y.ctxParent) + 1

\* context.WithCancel(parent): the new context is NewCtxId(y)
WithCancel(y, parent) ==
    [y EXCEPT !.ctxParent = Append(@, parent),
              !.cancelled = IF parent \in @ THEN @ \cup {NewCtxId(y)} ELSE @]

\* ctx.Err() != nil, <-ctx.Done() ready
CtxDone(y, c) == c \in y.cancelled

\* go f(ctx)
Go(y, kind, ctx) == [y EXCEPT !.tasks = Append(@, NewTask(kind, ctx))]

\* setRunning(b)
SetRunning(y, b) == [y EXCEPT !.running = b]

\* onStreamEnded(ctx)
onStreamEnded(y, ctx) ==
    LET y1 == SetRunning([CancelCtx(y, y.cancel) EXCEPT !.cancel = 0], FALSE)
    IN  IF y1.config.ChannelID # ""
        THEN Go([y1 EXCEPT !.config.VideoID = ""], "reconnect", y1.parentCtx)
        ELSE y1

\* pollCtx, cancel := context.WithCancel(ctx); c.cancel = cancel;
\* c.setRunning(true); go <kind>(pollCtx)
StartPolling(y, ctx, kind) ==
    LET y1 == WithCancel(y, ctx)
    IN  Go(SetRunning([y1 EXCEPT !.cancel = NewCtxId(y)], TRUE), kind, NewCtxId(y))

\* answers of fetchActiveLiveChatID: an error, no active chat, a chat id
ChatAnswers == {"err", "", "lc"}

\* fallbackToDataAPI(ctx); chat is what fetchActiveLiveChatID answers if asked
fallbackToDataAPI(y, ctx, chat) ==
    IF y.config.APIKey = "" THEN onStreamEnded(y, ctx)
    ELSE IF y.liveChatID = "" /\ chat = "err" THEN onStreamEnded(y, ctx)
    ELSE LET y1 == IF y.liveChatID = "" THEN [y EXCEPT !.liveChatID = chat] ELSE y
             y2 == StartPolling(y1, ctx, "pollLoop")
         IN  [y2 EXCEPT !.nextPageToken = ""]

\* what the network answers during one connectToLiveChat
NetAnswers == [init : BOOLEAN, chat : ChatAnswers]

\* connectToLiveChat(ctx): the channel afterwards and whether an error returns
connectToLiveChat(y, ctx, net) ==
    LET y0 == [y EXCEPT !.connects = @ + 1]
    IN  IF y0.config.ChatSource = "innertube"
        THEN IF ~net.init
             THEN [y |-> fallbackToDataAPI(y0, ctx, net.chat), err |-> FALSE]
             ELSE [y |-> StartPolling(y0, ctx, "innerTubePollLoop"), err |-> FALSE]
        ELSE IF y0.config.LiveChatID = "" /\ net.chat \in {"err", ""}
             THEN [y |-> y0, err |-> TRUE]
             ELSE LET id == IF y0.config.LiveChatID # "" THEN y0.config.LiveChatID
                            ELSE net.chat
                      y1 == [y0 EXCEPT !.liveChatID = id, !.nextPageToken = ""]
                  IN  [y |-> StartPolling(y1, ctx, "pollLoop"), err |-> FALSE]

AvatarSame == UNCHANGED <<parseVars, avatarVars, restVars>>

\* Start(ctx); found: resolveVideoID finds a live stream
YouTubeStart(found, net) ==
    /\ yPhase \in {"created", "failed", "stopped"}
    /\ yt.starts < MaxStarts
    /\ LET y0 == [yt EXCEPT !.parentCtx = RootCtx, !.starts = @ + 1]
       IN  IF y0.config.VideoID = "" /\ y0.config.ChannelID # "" /\ ~found
           THEN /\ yt' = Go([WithCancel(y0, RootCtx) EXCEPT !.reconnectCancel = NewCtxId(y0)],
                            "reconnect", NewCtxId(y0))
                /\ yPhase' = "started"
           ELSE LET y1 == IF y0.config.VideoID = "" /\ y0.config.ChannelID # ""
                          THEN [y0 EXCEPT !.config.VideoID = "vid"] ELSE y0
                    r  == connectToLiveChat(y1, RootCtx, net)
                IN  /\ y1.connects < MaxConnects
                    /\ yt' = r.y
                    /\ yPhase' = IF r.err THEN "failed" ELSE "started"
    /\ AvatarSame

\* Stop(ctx)
YouTubeStop ==
    /\ yPhase = "started"
    /\ LET y1 == [CancelCtx(yt, yt.reconnectCancel) EXCEPT !.reconnectCancel = 0]
       IN  yt' = SetRunning(CancelCtx(y1, y1.cancel), FALSE)
    /\ yPhase' = "stopped"
    /\ AvatarSame

Tasks == 1..Len(yt.tasks)

\* the goroutine t returns
Return(y, t) == [y EXCEPT !.tasks[t] = DoneTask]

\* processMessage / batchAndHandle hand one InboundMessage to the bus
Publish(y, n) == [y EXCEPT !.published = @ + n]

\* answers of one fetchInnerTubeChat: ErrLiveStreamOver, another error, no
\* message, messages that pass the filters
InnerTubeAnswers == {"over", "err", "none", "msgs"}

\* innerTubePollLoop, lines 1199-1203: the fetch returns and ctx.Err() is read
InnerTubeFetch(t, ans) ==
    /\ t \in Tasks
    /\ yt.tasks[t].kind = "innerTubePollLoop" /\ yt.tasks[t].pc = "fetch"
    /\ yt' = IF CtxDone(yt, yt.tasks[t].ctx)
             THEN Return(yt, t)
             ELSE [yt EXCEPT !.tasks[t].pc = "handle", !.tasks[t].got = ans]
    /\ UNCHANGED yPhase
    /\ AvatarSame

\* innerTubePollLoop, lines 1205-1263: what the loop does with the answer
InnerTubeHandle(t, chat) ==
    /\ t \in Tasks
    /\ yt.tasks[t].kind = "innerTubePollLoop" /\ yt.tasks[t].pc = "handle"
    /\ LET me   == yt.tasks[t]
           errs == me.consecutiveErrors + 1
       IN  CASE me.got = "over" ->
                    yt' = Return(onStreamEnded(yt, me.ctx), t)
             [] me.got = "err" /\ errs >= innerTubeMaxConsecutiveErrors ->
                    LET y1 == CancelCtx(yt, yt.cancel)
                    IN  yt' = Return(fallbackToDataAPI(y1, y1.parentCtx, chat), t)
             [] me.got = "err" /\ errs < innerTubeMaxConsecutiveErrors ->
                    yt' = [yt EXCEPT !.tasks[t].pc = "sleep", !.tasks[t].got = "",
                                     !.tasks[t].consecutiveErrors = errs]
             [] me.got = "none" ->
                    yt' = [yt EXCEPT !.tasks[t].pc = "fetch", !.tasks[t].got = "",
                                     !.tasks[t].consecutiveErrors = 0]
             [] me.got = "msgs" ->
                    /\ yt.published < MaxPublished
                    /\ yt' = Publish([yt EXCEPT !.tasks[t].pc = "fetch",
                                                !.tasks[t].got = "",
                                                !.tasks[t].consecutiveErrors = 0], 1)
    /\ UNCHANGED yPhase
    /\ AvatarSame

\* innerTubePollLoop, lines 1229-1234: select on ctx.Done() and the 5 s timer
InnerTubeSleep(t, woken) ==
    /\ t \in Tasks
    /\ yt.tasks[t].kind = "innerTubePollLoop" /\ yt.tasks[t].pc = "sleep"
    /\ woken \/ CtxDone(yt, yt.tasks[t].ctx)
    /\ yt' = IF woken THEN [yt EXCEPT !.tasks[t].pc = "fetch"] ELSE Return(yt, t)
    /\ UNCHANGED yPhase
    /\ AvatarSame

\* answers of one pollOnce: a transport or API error, the stream has ended,
\* a page without messages, a page with messages that pass the filters
PollAnswers == {"err", "ended", "none", "msgs"}

\* pollLoop: one pollOnce (the initial one, or the one after a tick) and, when
\* it reports the end of the stream, onStreamEnded
PollOnce(t, ans) ==
    /\ t \in Tasks
    /\ yt.tasks[t].kind = "pollLoop" /\ yt.tasks[t].pc = "fetch"
    /\ LET me == yt.tasks[t]
           y1 == [yt EXCEPT !.tasks[t].pc = "select"]
       IN  CASE ans = "ended" -> yt' = Return(onStreamEnded(yt, me.ctx), t)
             [] ans = "err"   -> yt' = y1
             [] ans = "none"  -> yt' = [y1 EXCEPT !.nextPageToken = "tok"]
             [] ans = "msgs"  -> /\ yt.published < MaxPublished
                                 /\ yt' = Publish([y1 EXCEPT !.nextPageToken = "tok"], 1)
    /\ UNCHANGED yPhase
    /\ AvatarSame

\* pollLoop, lines 634-643: select on ctx.Done() and the ticker
PollSelect(t, tick) ==
    /\ t \in Tasks
    /\ yt.tasks[t].kind = "pollLoop" /\ yt.tasks[t].pc = "select"
    /\ tick \/ CtxDone(yt, yt.tasks[t].ctx)
    /\ yt' = IF tick THEN [yt EXCEPT !.tasks[t].pc = "fetch"] ELSE Return(yt, t)
    /\ UNCHANGED yPhase
    /\ AvatarSame

\* reconnectLoop, lines 555-560: select on ctx.Done() and the interval timer
ReconnectSelect(t, woken) ==
    /\ t \in Tasks
    /\ yt.tasks[t].kind = "reconnect" /\ yt.tasks[t].pc = "wait"
    /\ woken \/ CtxDone(yt, yt.tasks[t].ctx)
    /\ yt' = IF woken THEN [yt EXCEPT !.tasks[t].pc = "resolve"] ELSE Return(yt, t)
    /\ UNCHANGED yPhase
    /\ AvatarSame

\* a variant that doubles without the cap
BackoffUncapped(interval) == interval * 2

\* the interval after a failed attempt, lines 586-591
Backoff(interval) ==
    IF interval < youtubeMaxReconnectInterval
    THEN IF interval * 2 > youtubeMaxReconnectInterval
         THEN youtubeMaxReconnectInterval ELSE interval * 2
    ELSE interval

\* reconnectLoop, lines 562-605: one resolve attempt and what follows it
ReconnectResolve(t, found, net) ==
    /\ t \in Tasks
    /\ yt.tasks[t].kind = "reconnect" /\ yt.tasks[t].pc = "resolve"
    /\ LET me == yt.tasks[t]
       IN  IF ~found
           THEN yt' = [yt EXCEPT !.tasks[t].pc = "wait", !.tasks[t].rssOnly = TRUE,
                                 !.tasks[t].interval = Backoff(me.interval)]
           ELSE LET r == connectToLiveChat([yt EXCEPT !.config.VideoID = "vid"],
                                           me.ctx, net)
                IN  /\ yt.connects < MaxConnects
                    /\ yt' = IF r.err THEN [r.y EXCEPT !.tasks[t].pc = "wait"]
                             ELSE Return(r.y, t)
    /\ UNCHANGED yPhase
    /\ AvatarSame

-----------------------------------------------------------------------------
(* YouTubeChannel: preFilter and shouldFilter.  A text is a sequence of      *)
(* runes; a rune of the model may take more than one byte in UTF-8.          *)

MaxWordLen == 2     \* longest free word in preFilter inputs

\* bytes of the UTF-8 encoding of a rune of the model
Utf8Len(ch) == IF ch = "é" THEN 2 ELSE 1

RECURSIVE ByteLen(_)
\* len(text): the length in bytes
ByteLen(s) == IF s = <<>> THEN 0 ELSE Utf8Len(Head(s)) + ByteLen(Tail(s))

\* len([]rune(text)): the length in runes
RuneLen(s) == Len(s)

\* strings.Contains(s, sub)
Contains(s, sub) ==
    \E i \in 0..(Len(s) - Len(sub)) : SubSeq(s, i + 1, i + Len(sub)) = sub

\* shouldFilter, lines 934-943: the count of the most frequent rune
MaxCount(s) ==
    LET count(ch) == Cardinality({i \in 1..Len(s) : s[i] = ch})
    IN  IF s = <<>> THEN 0
        ELSE CHOOSE n \in 1..Len(s) :
                /\ \E i \in 1..Len(s) : count(s[i]) = n
                /\ \A i \in 1..Len(s) : count(s[i]) <= n

httpPrefix  == <<"h","t","t","p",":","/","/">>
httpsPrefix == <<"h","t","t","p","s",":","/","/">>

\* no TextMessageDetails
Nil == [MessageText |-> <<"nil">>]

\* preFilter lines 892-895, processMessage lines 727-731: the text of an item
TextOf(item) ==
    IF item.TextMessageDetails # Nil THEN item.TextMessageDetails.MessageText
    ELSE item.DisplayMessage

\* shouldFilter(text); MaxRepeatRatio is the fraction num/den
shouldFilter(text, cfg) ==
    LET lower == ToLower(text)
    IN  \/ \E k \in 1..Len(cfg.NGWords) : Contains(lower, ToLower(cfg.NGWords[k]))
        \/ cfg.MinMessageLength > 0 /\ RuneLen(text) < cfg.MinMessageLength
        \/ cfg.BlockURLs /\ (Contains(text, httpPrefix) \/ Contains(text, httpsPrefix))
        \/ /\ cfg.MaxRepeatRatio.num > 0
           /\ RuneLen(text) > 0
           /\ MaxCount(text) * cfg.MaxRepeatRatio.den > cfg.MaxRepeatRatio.num * RuneLen(text)

RECURSIVE FilterLoop(_, _)
\* preFilter, lines 890-905: the loop over items
FilterLoop(items, cfg) ==
    IF items = <<>> THEN <<>>
    ELSE LET item == Head(items)
             rest == FilterLoop(Tail(items), cfg)
         IN  IF TextOf(item) = <<>> \/ shouldFilter(TextOf(item), cfg)
             THEN rest ELSE <<item>> \o rest

\* a variant without the pass-through for an empty rule set
preFilterAlways(items, cfg) == FilterLoop(items, cfg)

\* preFilter(items)
preFilter(items, cfg) ==
    IF /\ Len(cfg.NGWords) = 0 /\ cfg.MinMessageLength = 0
       /\ cfg.MaxRepeatRatio.num = 0 /\ ~cfg.BlockURLs
    THEN items
    ELSE FilterLoop(items, cfg)

\* a chat message; the fields selectComments reads are set by its own inputs
Message(id, display, details) ==
    [ID |-> id, DisplayMessage |-> display, TextMessageDetails |-> details,
     SuperChatDetails |-> FALSE, IsChatOwner |-> FALSE, IsChatModerator |-> FALSE]

FilterAlphabet == {"a", "A", "é"}

FilterTexts ==
    SeqsUpTo(FilterAlphabet, MaxWordLen)
    \cup {u \o w : u \in {httpPrefix, httpsPrefix, <<"h","t","t","p",":","/">>,
                         <<"H","T","T","P",":","/","/">>},
                   w \in {<<>>, <<"a">>}}
    \cup {<<"a">> \o httpPrefix, <<"é">> \o httpsPrefix, <<"a","a","é">>, <<"a","A","é">>}

\* a text message with text t, and an event of another type displayed as t
MessagesAt(id) ==
    {Message(id, <<"d">>, [MessageText |-> t]) : t \in FilterTexts}
    \cup {Message(id, t, Nil) : t \in FilterTexts}

ItemLists ==
    {<<>>} \cup {<<m>> : m \in MessagesAt("i1")}
    \cup {<<m, n>> : m \in MessagesAt("i1"), n \in MessagesAt("i2")}

NoRatio == [num |-> 0, den |-> 1]

FilterConfigs ==
    [NGWords : {<<>>, << <<"A">> >>, << <<"é","a">>, <<"a","a">> >>},
     MinMessageLength : {0, 2},
     MaxRepeatRatio : {NoRatio, [num |-> 1, den |-> 2]},
     BlockURLs : BOOLEAN]

Pending == [done |-> FALSE, items |-> <<>>]

\* one call of preFilter
PreFilterCall ==
    /\ ~fOut.done
    /\ fOut' = [done |-> TRUE, items |-> preFilter(fItems, fConfig)]
    /\ UNCHANGED <<fConfig, fItems, selectVars, acc, tok, auxVars, parseVars, avatarVars, ytVars>>

-----------------------------------------------------------------------------
(* YouTubeChannel: selectComments.  The result of the random strategy       *)
(* depends on rand.IntN, so selectComments is the set of slices it can      *)
(* return.                                                                  *)

MaxMsgs == 3        \* longest input of selectComments

\* a variant that copies one way only
Overwrite(s, i, j) == [s EXCEPT ![i] = s[j]]

\* shuffled[i], shuffled[j] = shuffled[j], shuffled[i]
Swap(s, i, j) == [s EXCEPT ![i] = s[j], ![j] = s[i]]

\* a variant that takes the front of the slice
FirstN(msgs, n) == SubSeq(msgs, 1, n)

\* msgs[len(msgs)-max:]
LastN(msgs, n) == SubSeq(msgs, Len(msgs) - n + 1, Len(msgs))

RECURSIVE Shuffles(_, _)
\* selectComments, lines 978-981: the loop from position i down, j := rand.IntN
Shuffles(s, i) ==
    IF i <= 1 THEN {s}
    ELSE UNION {Shuffles(Swap(s, i, j), i - 1) : j \in 1..i}

\* selectComments, lines 964-966: has super-chat details, is owner or moderator
Prioritized(m) == m.SuperChatDetails \/ m.IsChatOwner \/ m.IsChatModerator

RECURSIVE Keep(_, _)
\* the elements of msgs with Prioritized(m) = wanted, in input order
Keep(msgs, wanted) ==
    IF msgs = <<>> THEN <<>>
    ELSE IF Prioritized(Head(msgs)) = wanted
         THEN <<Head(msgs)>> \o Keep(Tail(msgs), wanted)
         ELSE Keep(Tail(msgs), wanted)

\* selectComments(msgs): the slices the call can return
selectComments(msgs, cfg) ==
    LET max == cfg.MaxCommentsPerPoll
    IN  IF max <= 0 \/ Len(msgs) <= max THEN {msgs}
        ELSE CASE cfg.SelectionStrategy = "priority" ->
                    LET result == Keep(msgs, TRUE) \o Keep(msgs, FALSE)
                    IN  {IF Len(result) > max THEN SubSeq(result, 1, max) ELSE result}
               [] cfg.SelectionStrategy = "random" ->
                    {SubSeq(sh, 1, max) : sh \in Shuffles(msgs, Len(msgs))}
               [] OTHER ->
                    {LastN(msgs, max)}

\* who wrote a message, as far as selectComments can tell
AuthorKinds == {"viewer", "superchat", "owner", "moderator"}

\* the message at input position i written by an author of the given kind
MessageOf(i, kind) ==
    [ID |-> i, DisplayMessage |-> <<"d">>, TextMessageDetails |-> [MessageText |-> <<"a">>],
     SuperChatDetails |-> kind = "superchat", IsChatOwner |-> kind = "owner",
     IsChatModerator |-> kind = "moderator"]

MsgLists ==
    {[i \in 1..Len(ks) |-> MessageOf(i, ks[i])] : ks \in SeqsUpTo(AuthorKinds, MaxMsgs)}

SelectConfigs ==
    [MaxCommentsPerPoll : -1..MaxMsgs,
     SelectionStrategy : {"latest", "priority", "random", "", "newest"}]

\* one call of selectComments; the caller's slice is left as it was
SelectCall ==
    /\ ~sOut.done
    /\ \E r \in selectComments(sMsgs, sConfig) : sOut' = [done |-> TRUE, msgs |-> r]
    /\ UNCHANGED <<sConfig, sMsgs, filterVars, acc, tok, auxVars, parseVars, avatarVars, ytVars>>

-----------------------------------------------------------------------------
(* YouTubeChannel: comment accumulation.  Time is counted in seconds; a      *)
(* timer fires, and a ready step of flushLoop runs, before the clock moves   *)
(* on.  A buffered comment is the time at which it was buffered.             *)

MaxTime     == 5    \* the clock stops here
MaxComments == 3    \* comments buffered in one run

\* min_accumulate_seconds, max_accumulate_seconds (both > 0 after
\* NewYouTubeChannel) and whether SetTTSReady attached a signal channel
AccumConfigs == [min : {1, 2}, max : {1, 2, 3}, hasTTS : BOOLEAN]

NoBatch == [first |-> -1, at |-> -1, size |-> 0]

\* the accumulator when connectToLiveChat has launched flushLoop
NewAccumulator(cfg) ==
    [cfg |-> cfg, now |-> 0, commentBuffer |-> <<>>, commentNotify |-> 0,
     ttsReady |-> 0, pc |-> "phase1", deadline |-> -1, cancelled |-> FALSE,
     appended |-> 0, lastBatch |-> NoBatch]

OthersSame == UNCHANGED <<parseVars, avatarVars, ytVars, filterVars, selectVars, auxVars>>

\* appendToBuffer: a poll buffers a comment and signals without blocking
AppendToBuffer ==
    /\ acc.appended < MaxComments
    /\ acc' = [acc EXCEPT !.commentBuffer = Append(@, acc.now),
                          !.commentNotify = 1,
                          !.appended = @ + 1]
    /\ UNCHANGED tok
    /\ OthersSame

\* the avatar side signals that speech has finished
TTSReadySignal ==
    /\ acc.cfg.hasTTS
    /\ acc.ttsReady = 0
    /\ acc' = [acc EXCEPT !.ttsReady = 1]
    /\ UNCHANGED tok
    /\ OthersSame

\* the polling context of flushLoop is cancelled
AccumCancel ==
    /\ ~acc.cancelled
    /\ acc' = [acc EXCEPT !.cancelled = TRUE]
    /\ UNCHANGED tok
    /\ OthersSame

\* flushLoop, lines 1045-1049: wait for the first comment
FlushPhase1 ==
    /\ acc.pc = "phase1"
    /\ acc.commentNotify = 1
    /\ acc' = [acc EXCEPT !.commentNotify = 0,
                          !.pc = "phase2",
                          !.deadline = acc.now + acc.cfg.min]
    /\ UNCHANGED tok
    /\ OthersSame

\* flushLoop, lines 1051-1069: the minimum wait has passed
FlushPhase2 ==
    /\ acc.pc = "phase2"
    /\ acc.now >= acc.deadline
    /\ acc' = IF acc.cfg.hasTTS /\ acc.cfg.max - acc.cfg.min > 0
              THEN [acc EXCEPT !.pc = "phase3",
                               !.deadline = acc.now + (acc.cfg.max - acc.cfg.min)]
              ELSE [acc EXCEPT !.pc = "flush", !.deadline = -1]
    /\ UNCHANGED tok
    /\ OthersSame

\* flushLoop, line 1064: <-c.ttsReady
FlushPhase3TTS ==
    /\ acc.pc = "phase3"
    /\ acc.ttsReady = 1
    /\ acc' = [acc EXCEPT !.ttsReady = 0, !.pc = "flush", !.deadline = -1]
    /\ UNCHANGED tok
    /\ OthersSame

\* flushLoop, lines 1065-1066: the maximum wait has passed
FlushPhase3Timeout ==
    /\ acc.pc = "phase3"
    /\ acc.now >= acc.deadline
    /\ acc' = [acc EXCEPT !.pc = "flush", !.deadline = -1]
    /\ UNCHANGED tok
    /\ OthersSame

\* flushLoop, lines 1046-1047, 1053-1054, 1062-1063: <-ctx.Done()
FlushCtxDone ==
    /\ acc.pc \in {"phase1", "phase2", "phase3"}
    /\ acc.cancelled
    /\ acc' = [acc EXCEPT !.pc = "done", !.deadline = -1]
    /\ UNCHANGED tok
    /\ OthersSame

\* flushCommentBuffer: the whole buffer leaves as one batch
FlushCommentBuffer ==
    /\ acc.pc = "flush"
    /\ acc' = IF acc.commentBuffer = <<>>
              THEN [acc EXCEPT !.pc = "phase1"]
              ELSE [acc EXCEPT !.pc = "phase1",
                               !.commentBuffer = <<>>,
                               !.lastBatch = [first |-> acc.commentBuffer[1],
                                              at |-> acc.now,
                                              size |-> Len(acc.commentBuffer)]]
    /\ UNCHANGED tok
    /\ OthersSame

\* flushLoop has a step that is ready now
FlushReady ==
    \/ acc.pc = "phase1" /\ (acc.commentNotify = 1 \/ acc.cancelled)
    \/ acc.pc \in {"phase2", "phase3"} /\ (acc.now >= acc.deadline \/ acc.cancelled)
    \/ acc.pc = "phase3" /\ acc.ttsReady = 1
    \/ acc.pc = "flush"

\* one second passes
Tick ==
    /\ acc.now < MaxTime
    /\ ~FlushReady
    /\ acc' = [acc EXCEPT !.now = @ + 1]
    /\ UNCHANGED tok
    /\ OthersSame

-----------------------------------------------------------------------------
(* YouTubeChannel: the page-token cursors.  The main REST poll (pollLoop)    *)
(* and the super-chat sub-poll (superChatPollLoop) each send requests with   *)
(* a page token and store the token of the answer.                           *)

PageTokens == {"", "p1", "p2"}     \* "" is no token

\* answers of liveChatMessages.list: transport error, API error that ends the
\* task, other API error, or a page with the next token
ListAnswers == {[kind |-> k, token |-> ""] : k \in {"err", "fatal", "apiErr"}}
               \cup {[kind |-> "ok", token |-> t] : t \in PageTokens}

NewCursors ==
    [nextPageToken |-> "", superChatPageToken |-> "",
     main |-> "off", sub |-> "off", subCancelled |-> FALSE,
     mainRequest |-> "none", subRequest |-> "none"]

\* a variant that stores the sub-poll's token in the main cursor
StoreInMainCursor(c, t) == [c EXCEPT !.nextPageToken = t]

\* superChatPollLoop, line 1346: c.superChatPageToken = nextToken
StoreSubCursor(c, t) == [c EXCEPT !.superChatPageToken = t]

\* connectToLiveChat in innertube mode with super-chat polling: the sub-poll
\* is launched; the main REST poll is not
ConnectScrape ==
    /\ tok.main = "off" /\ tok.sub = "off"
    /\ tok' = [tok EXCEPT !.sub = "select", !.subCancelled = FALSE]
    /\ UNCHANGED acc
    /\ OthersSame

\* connectToLiveChat in data_api mode, lines 276-280: the cursor is reset and
\* pollLoop is launched
ConnectREST ==
    /\ tok.main = "off" /\ tok.sub = "off"
    /\ tok' = [tok EXCEPT !.nextPageToken = "", !.main = "fetch"]
    /\ UNCHANGED acc
    /\ OthersSame

\* innerTubePollLoop lines 1222-1225 with fallbackToDataAPI lines 1293-1298:
\* the polling context is cancelled, the cursor is reset, pollLoop is launched
Fallback ==
    /\ tok.main = "off" /\ tok.sub # "off" /\ ~tok.subCancelled
    /\ tok' = [tok EXCEPT !.subCancelled = TRUE, !.nextPageToken = "", !.main = "fetch"]
    /\ UNCHANGED acc
    /\ OthersSame

\* pollOnce with fetchLiveChatMessages: the request carries nextPageToken;
\* a non-empty token of the answer is stored; an ended stream ends the task
MainPoll(ans) ==
    /\ tok.main = "fetch"
    /\ LET sent == [tok EXCEPT !.mainRequest = tok.nextPageToken]
       IN  tok' = CASE ans.kind = "fatal" -> [sent EXCEPT !.main = "off", !.subCancelled = TRUE]
                    [] ans.kind = "ok" /\ ans.token # "" ->
                           [sent EXCEPT !.main = "select", !.nextPageToken = ans.token]
                    [] OTHER -> [sent EXCEPT !.main = "select"]
    /\ UNCHANGED acc
    /\ OthersSame

\* pollLoop, lines 634-643: the ticker fires
MainTick ==
    /\ tok.main = "select"
    /\ tok' = [tok EXCEPT !.main = "fetch"]
    /\ UNCHANGED acc
    /\ OthersSame

\* superChatPollLoop, lines 1320-1325: select on ctx.Done() and the ticker
SubSelect(tick) ==
    /\ tok.sub = "select"
    /\ tick \/ tok.subCancelled
    /\ tok' = [tok EXCEPT !.sub = IF tick THEN "fetch" ELSE "off"]
    /\ UNCHANGED acc
    /\ OthersSame

\* superChatPollLoop lines 1327-1346 with fetchSuperChatMessages: the request
\* carries superChatPageToken; the token of a page is stored
SubPoll(ans) ==
    /\ tok.sub = "fetch"
    /\ LET sent == [tok EXCEPT !.subRequest = tok.superChatPageToken]
       IN  tok' = CASE ans.kind = "fatal" -> [sent EXCEPT !.sub = "off"]
                    [] ans.kind = "ok" ->
                           [StoreSubCursor(sent, ans.token) EXCEPT !.sub = "select"]
                    [] OTHER -> [sent EXCEPT !.sub = "select"]
    /\ UNCHANGED acc
    /\ OthersSame

-----------------------------------------------------------------------------
(* YouTubeChannel: handleAPIError.  An API error is a code and a message;    *)
(* the message is text, searched with strings.Contains.                      *)

quotaExceeded      == <<"q","u","o","t","a","E","x","c","e","e","d","e","d">>
dailyLimitExceeded == <<"d","a","i","l","y","L","i","m","i","t","E","x","c","e","e","d","e","d">>
forbidden          == <<"f","o","r","b","i","d","d","e","n">>
liveChatDisabled   == <<"l","i","v","e","C","h","a","t","D","i","s","a","b","l","e","d">>
noLongerLive       == <<"n","o"," ","l","o","n","g","e","r"," ","l","i","v","e">>
liveChatEnded      == <<"l","i","v","e","C","h","a","t","E","n","d","e","d">>
notFound           == <<"n","o","t"," ","f","o","u","n","d">>

\* a variant that takes every API error for the end of the stream
handleAnyAPIError(apiErr) == TRUE

\* handleAPIError(apiErr): TRUE when the stream has ended
handleAPIError(apiErr) ==
    CASE apiErr.Code = 401 -> FALSE
      [] apiErr.Code = 403 ->
            IF Contains(apiErr.Message, quotaExceeded)
               \/ Contains(apiErr.Message, dailyLimitExceeded) THEN FALSE
            ELSE IF Contains(apiErr.Message, forbidden)
                    \/ Contains(apiErr.Message, liveChatDisabled) THEN FALSE
            ELSE IF Contains(apiErr.Message, noLongerLive)
                    \/ Contains(apiErr.Message, liveChatEnded) THEN TRUE
            ELSE FALSE
      [] apiErr.Code = 404 -> TRUE
      [] OTHER -> FALSE

\* HTTP status codes of the error answers of the model
ErrorCodes == {400, 401, 403, 404, 500}

\* the fragments an error message is made of
Fragments == {quotaExceeded, dailyLimitExceeded, forbidden, liveChatDisabled,
              noLongerLive, liveChatEnded, notFound}

\* messages: empty, one fragment, or two fragments separated by ": "
ErrorMessages ==
    {<<>>} \cup Fragments
           \cup {a \o <<":", " ">> \o b : a \in Fragments, b \in Fragments}

APIErrors == [Code : ErrorCodes, Message : ErrorMessages]

\* one call of handleAPIError
HandleAPIErrorCall ==
    /\ ~api.done
    /\ api' = [api EXCEPT !.done = TRUE, !.ended = handleAPIError(api.err)]
    /\ ApiSame

-----------------------------------------------------------------------------
(* YouTubeChannel: Send.  The bus is the list of OutboundMessages handed to  *)
(* PublishOutbound.                                                          *)

MaxForwards == 2    \* calls of Send

ForwardConfigs == [ForwardChannel : {"", "discord", "aituber"},
                   ForwardChatID  : {"", "999", "default"}]

\* replies handed to Send
Replies == [Channel : {"youtube"}, ChatID : {"", "livechat123"},
            Content : {"", "Hello", "Hello from AI"}]

NoReply == [Channel |-> "", ChatID |-> "", Content |-> ""]

\* the channel and the bus before the first Send
NewSender(cfg) ==
    [cfg |-> cfg, outbound |-> <<>>, calls |-> 0, last |-> NoReply, ret |-> "none"]

\* a variant that looks at forward_channel only
ForwardsByChannel(cfg) == cfg.ForwardChannel # ""

\* Send, line 610: both keys are set
Forwards(cfg) == ~(cfg.ForwardChannel = "" \/ cfg.ForwardChatID = "")

\* Send(ctx, msg)
YouTubeSend(msg) ==
    /\ snd.calls < MaxForwards
    /\ snd' = IF Forwards(snd.cfg)
              THEN [snd EXCEPT !.outbound = Append(@, [Channel |-> snd.cfg.ForwardChannel,
                                                      ChatID  |-> snd.cfg.ForwardChatID,
                                                      Content |-> msg.Content]),
                               !.calls = @ + 1, !.last = msg, !.ret = "nil"]
              ELSE [snd EXCEPT !.calls = @ + 1, !.last = msg, !.ret = "nil"]
    /\ SendSame

-----------------------------------------------------------------------------
(* YouTubeChannel: the validation of NewYouTubeChannel and the transport     *)
(* connectToLiveChat takes for the stored configuration.                     *)

\* configurations as the configuration file may give them; "rest" stands for
\* any chat_source that is none of "", "innertube", "data_api"
RawConfigs ==
    [ChatSource : {"", "innertube", "data_api", "rest"}, APIKey : {"", "key"},
     ChannelID : {"", "UC"}, VideoID : {"", "vid"}, LiveChatID : {"", "lc"}]

NoConfig == [ChatSource |-> "", APIKey |-> "", ChannelID |-> "", VideoID |-> "",
             LiveChatID |-> ""]

\* NewYouTubeChannel, lines 143-145: the default of chat_source
Defaulted(cfg) ==
    IF cfg.ChatSource = "" THEN [cfg EXCEPT !.ChatSource = "innertube"] ELSE cfg

\* NewYouTubeChannel, lines 146-151: an error is returned
ValidationError(cfg) ==
    \/ Defaulted(cfg).ChatSource = "data_api" /\ cfg.APIKey = ""
    \/ cfg.VideoID = "" /\ cfg.ChannelID = ""

\* connectToLiveChat, line 215: the transport the channel polls first
PrimaryTransport(cfg) ==
    IF cfg.ChatSource = "innertube" THEN "scrape" ELSE "rest"

NotConstructed(cfg) == [cfg |-> cfg, done |-> FALSE, err |-> FALSE, config |-> NoConfig]

\* one call of NewYouTubeChannel(cfg, msgBus)
NewYouTubeChannelCall ==
    /\ ~ctor.done
    /\ ctor' = IF ValidationError(ctor.cfg)
               THEN [ctor EXCEPT !.done = TRUE, !.err = TRUE]
               ELSE [ctor EXCEPT !.done = TRUE, !.config = Defaulted(ctor.cfg)]
    /\ CtorSame

-----------------------------------------------------------------------------
(* YouTubeChannel: one run of reconnectLoop, with resolveVideoID split into  *)
(* the feed lookup (resolveViaRSS) and the search.list fallback              *)
(* (searchLiveStream).  Time is counted in seconds.                          *)

MaxAttempts == 5    \* resolve attempts of one run

\* reconnectLoop, lines 546-547
NewReconnectLoop(chatSource) ==
    [chatSource |-> chatSource, pc |-> "wait", interval |-> youtubeReconnectInterval,
     rssOnly |-> FALSE, cancelled |-> FALSE, attempts |-> 0, misses |-> 0,
     searches |-> 0, waited |-> <<>>]

\* Stop calls reconnectCancel
ReconnectCancel ==
    /\ ~rc.cancelled
    /\ rc.pc # "done"
    /\ rc' = [rc EXCEPT !.cancelled = TRUE]
    /\ ReconnectSame

\* reconnectLoop, lines 556-558: <-ctx.Done()
ReconnectCtxDone ==
    /\ rc.pc = "wait"
    /\ rc.cancelled
    /\ rc' = [rc EXCEPT !.pc = "done"]
    /\ ReconnectSame

\* reconnectLoop, line 559: <-time.After(interval)
ReconnectTimer ==
    /\ rc.pc = "wait"
    /\ rc.attempts < MaxAttempts
    /\ rc' = [rc EXCEPT !.pc = "resolve", !.waited = Append(@, rc.interval)]
    /\ ReconnectSame

\* reconnectLoop, lines 562-605: one attempt.  rss and search tell whether
\* resolveViaRSS and searchLiveStream find a stream, connected whether
\* connectToLiveChat returns nil (it always does on the scrape transport)
ReconnectAttempt(rss, search, connected) ==
    /\ rc.pc = "resolve"
    /\ LET full     == ~rc.rssOnly
           searched == full /\ ~rss
           found    == rss \/ (searched /\ search)
           r1 == [rc EXCEPT !.attempts = @ + 1,
                            !.searches = IF searched THEN @ + 1 ELSE @]
       IN  rc' = IF ~found
                 THEN [r1 EXCEPT !.pc = "wait",
                                 !.rssOnly = TRUE,
                                 !.misses = @ + 1,
                                 !.interval = Backoff(rc.interval)]
                 ELSE IF connected \/ rc.chatSource = "innertube"
                      THEN [r1 EXCEPT !.pc = "done"]
                      ELSE [r1 EXCEPT !.pc = "wait"]
    /\ ReconnectSame

-----------------------------------------------------------------------------
(* YouTubeChannel on the REST transport with accumulate_comments = true:     *)
(* Start, Stop, pollLoop with pollOnce, onStreamEnded statement by           *)
(* statement, appendToBuffer, flushCommentBuffer and discardBuffer.  A       *)
(* comment is a number; the buffer operations are atomic under bufferMu.     *)

MaxSessions == 2    \* Start calls that reach connectToLiveChat
MaxAppended == 2    \* comments buffered

\* the channel NewYouTubeChannel returns for video_id "vid" and this channel_id
NewSession(channelID) ==
    [ChannelID |-> channelID, VideoID |-> "vid", liveChatID |-> "",
     nextPageToken |-> "", running |-> FALSE, cancel |-> 0,
     ctxs |-> 0, cancelled |-> {}, phase |-> "created", sessions |-> 0,
     tasks |-> <<>>, commentBuffer |-> <<>>, appended |-> 0,
     drains |-> <<>>, published |-> 0, launches |-> <<>>]

\* answers of liveChatMessages.list to one pollOnce: a transport or parse
\* error, an API error, or a page with a next token and new comments
PollErrors ==
    {[Code |-> 401, Message |-> <<>>], [Code |-> 403, Message |-> quotaExceeded],
     [Code |-> 403, Message |-> forbidden], [Code |-> 403, Message |-> liveChatEnded],
     [Code |-> 403, Message |-> forbidden \o <<":", " ">> \o noLongerLive],
     [Code |-> 404, Message |-> notFound], [Code |-> 500, Message |-> <<>>]}

NoError == [Code |-> 0, Message |-> <<>>]

PageAnswers ==
    {[kind |-> "err", err |-> NoError, token |-> "", items |-> 0]}
    \cup {[kind |-> "api", err |-> e, token |-> "", items |-> 0] : e \in PollErrors}
    \cup {[kind |-> "page", err |-> NoError, token |-> t, items |-> n] :
             t \in {"", "p1"}, n \in 0..1}

\* the task has no answer at hand
NoAnswer == [kind |-> "none", err |-> NoError, token |-> "", items |-> 0]

\* a variant that returns the buffer as it is
Kept(buffer) == buffer

\* flushCommentBuffer line 1084, discardBuffer line 1107: c.commentBuffer = nil
Cleared(buffer) == <<>>

\* c.cancel() when c.cancel is not nil
CancelPolling(s) ==
    IF s.cancel = 0 THEN s ELSE [s EXCEPT !.cancelled = @ \cup {s.cancel}]

\* Stop(ctx)
SessionStop ==
    /\ ses.phase = "started"
    /\ ses' = [CancelPolling(ses) EXCEPT !.running = FALSE, !.phase = "stopped"]
    /\ SessionSame

\* connectToLiveChat, lines 263-290, when a chat id is at hand: the cursor is
\* reset, a polling context is made and pollLoop is launched on it
Connected(s) ==
    [s EXCEPT !.liveChatID = "lc", !.nextPageToken = "", !.ctxs = @ + 1,
              !.cancel = s.ctxs + 1, !.running = TRUE,
              !.tasks = Append(@, [pc |-> "poll", ctx |-> s.ctxs + 1,
                                   resp |-> NoAnswer]),
              !.sessions = @ + 1]

\* Start(ctx) with connectToLiveChat on the REST transport; found: the stream
\* is resolved, chat: fetchActiveLiveChatID returns a chat id
SessionStart(found, chat) ==
    /\ ses.phase \in {"created", "stopped"}
    /\ ses.sessions < MaxSessions
    /\ ses' = IF ses.VideoID = "" /\ ses.ChannelID # "" /\ ~found
              THEN [ses EXCEPT !.phase = "started"]
              ELSE IF ~chat
              THEN [ses EXCEPT !.VideoID = "vid"]
              ELSE [Connected([ses EXCEPT !.VideoID = "vid"]) EXCEPT !.phase = "started"]
    /\ SessionSame

\* appendToBuffer(msgs) for n new comments
Appended(s, n) ==
    [s EXCEPT !.commentBuffer = @ \o [i \in 1..n |-> s.appended + i],
              !.appended = @ + n]

\* pollOnce() for the answer ans: the channel afterwards and the value returned
pollOnce(s, ans) ==
    CASE ans.kind = "err" -> [s |-> s, streamEnded |-> FALSE]
      [] ans.kind = "api" -> [s |-> s, streamEnded |-> handleAPIError(ans.err)]
      [] OTHER ->
           LET s1 == IF ans.token # "" THEN [s EXCEPT !.nextPageToken = ans.token] ELSE s
           IN  [s |-> Appended(s1, ans.items), streamEnded |-> FALSE]

\* pollLoop, lines 628-631 and 639-642: task t calls pollOnce
SessionPoll(t, ans) ==
    /\ t \in 1..Len(ses.tasks)
    /\ ses.tasks[t].pc = "poll"
    /\ ses.appended + ans.items <= MaxAppended
    /\ LET r == pollOnce(ses, ans)
       IN  ses' = [r.s EXCEPT !.tasks[t].pc = IF r.streamEnded THEN "discard" ELSE "select",
                              !.tasks[t].resp = ans]
    /\ SessionSame

\* pollLoop, lines 634-643: select on ctx.Done() and the ticker
SessionSelect(t, tick) ==
    /\ t \in 1..Len(ses.tasks)
    /\ ses.tasks[t].pc = "select"
    /\ tick \/ ses.tasks[t].ctx \in ses.cancelled
    /\ ses' = [ses EXCEPT !.tasks[t].pc = IF tick THEN "poll" ELSE "done",
                          !.tasks[t].resp = NoAnswer]
    /\ SessionSame

\* onStreamEnded, line 651: c.discardBuffer()
StreamEndDiscard(t) ==
    /\ t \in 1..Len(ses.tasks)
    /\ ses.tasks[t].pc = "discard"
    /\ ses' = [ses EXCEPT !.drains = Append(@, [kind |-> "discard",
                                               items |-> ses.commentBuffer]),
                          !.commentBuffer = Cleared(@),
                          !.tasks[t].pc = "cancel"]
    /\ SessionSame

\* onStreamEnded, lines 652-655: c.cancel(); c.cancel = nil
StreamEndCancel(t) ==
    /\ t \in 1..Len(ses.tasks)
    /\ ses.tasks[t].pc = "cancel"
    /\ ses' = [CancelPolling(ses) EXCEPT !.cancel = 0, !.tasks[t].pc = "setRunning"]
    /\ SessionSame

\* onStreamEnded, line 656: c.setRunning(false)
StreamEndSetRunning(t) ==
    /\ t \in 1..Len(ses.tasks)
    /\ ses.tasks[t].pc = "setRunning"
    /\ ses' = [ses EXCEPT !.running = FALSE, !.tasks[t].pc = "launch"]
    /\ SessionSame

\* onStreamEnded, lines 657-665: with a channel_id the video id is cleared and
\* reconnectLoop is launched; what holds at that moment is recorded
StreamEndLaunch(t) ==
    /\ t \in 1..Len(ses.tasks)
    /\ ses.tasks[t].pc = "launch"
    /\ ses' = IF ses.ChannelID # ""
              THEN [ses EXCEPT !.VideoID = "",
                               !.launches = Append(@,
                                   [commentBuffer |-> ses.commentBuffer,
                                    running |-> ses.running,
                                    VideoID |-> "",
                                    pollCancelled |-> ses.tasks[t].ctx \in ses.cancelled]),
                               !.tasks[t].pc = "done"]
              ELSE [ses EXCEPT !.tasks[t].pc = "done"]
    /\ SessionSame

\* flushCommentBuffer, called by flushLoop
SessionFlush ==
    /\ ses.sessions > 0
    /\ ses' = IF ses.commentBuffer = <<>>
              THEN ses
              ELSE [ses EXCEPT !.drains = Append(@, [kind |-> "flush",
                                                    items |-> ses.commentBuffer]),
                               !.commentBuffer = Cleared(@),
                               !.published = @ + 1]
    /\ SessionSame

-----------------------------------------------------------------------------
(* YouTubeChannel: dispatch of the selected comments to the bus, by          *)
(* processMessage and HandleMessage or by batchAndHandle.  The bus is the    *)
(* list of InboundMessages handed to PublishInbound.  IsAllowed and          *)
(* HandleMessage belong to BaseChannel and follow the channel contract:      *)
(* IsAllowed is true iff the allow-list is empty or contains the sender, and *)
(* HandleMessage publishes iff IsAllowed.                                    *)

MaxSelected == 2    \* comments in one dispatch

\* comments: the author's channel id, the snippet type and the text
Comments ==
    [ChannelID : {"UCa", "UCb"},
     Type : {"textMessageEvent", "superChatEvent", "newSponsorEvent"},
     Text : {"", "hi"}]

CommentLists == UNION {[1..n -> Comments] : n \in 0..MaxSelected}

\* the paths that dispatch: pollOnce and innerTubePollLoop, flushCommentBuffer,
\* superChatPollLoop
DispatchPaths == {"poll", "flush", "superchat"}

NewDispatch(allow, batch, path, selected) ==
    [AllowFrom |-> allow, BatchComments |-> batch, path |-> path,
     selected |-> selected, inbound |-> <<>>, done |-> FALSE]

\* BaseChannel.IsAllowed(senderID)
IsAllowed(allow, senderID) == allow = {} \/ senderID \in allow

\* BaseChannel.HandleMessage(senderID, chatID, content, media, metadata)
HandleMessage(bus, allow, senderID, msg) ==
    IF IsAllowed(allow, senderID)
    THEN Append(bus, [SenderID |-> senderID, batch |-> FALSE, items |-> <<msg>>])
    ELSE bus

\* a variant that publishes the comment itself
processMessageUnguarded(bus, allow, msg) ==
    Append(bus, [SenderID |-> msg.ChannelID, batch |-> FALSE, items |-> <<msg>>])

\* processMessage(msg)
processMessage(bus, allow, msg) ==
    IF msg.Type # "textMessageEvent" /\ msg.Type # "superChatEvent" THEN bus
    ELSE IF msg.Text = "" THEN bus
    ELSE HandleMessage(bus, allow, msg.ChannelID, msg)

\* for _, item := range selected { c.processMessage(item) }
RECURSIVE ProcessEach(_, _, _)
ProcessEach(bus, allow, msgs) ==
    IF msgs = <<>> THEN bus
    ELSE ProcessEach(processMessage(bus, allow, Head(msgs)), allow, Tail(msgs))

\* batchAndHandle(msgs)
batchAndHandle(bus, msgs) ==
    Append(bus, [SenderID |-> "youtube-batch", batch |-> TRUE, items |-> msgs])

\* pollOnce lines 708-714, innerTubePollLoop lines 1255-1262
DispatchPoll(bus, allow, batch, selected) ==
    IF batch /\ Len(selected) > 1 THEN batchAndHandle(bus, selected)
    ELSE ProcessEach(bus, allow, selected)

\* flushCommentBuffer lines 1087-1100
DispatchFlush(bus, allow, selected) ==
    IF Len(selected) = 0 THEN bus
    ELSE IF Len(selected) = 1 THEN processMessage(bus, allow, selected[1])
    ELSE batchAndHandle(bus, selected)

\* superChatPollLoop lines 1348-1352: the super chats of the page, one by one
DispatchSuperChats(bus, allow, items) ==
    ProcessEach(bus, allow, SelectSeq(items, LAMBDA m : m.Type = "superChatEvent"))

\* one dispatch
DispatchCall ==
    /\ ~dsp.done
    /\ dsp' = [dsp EXCEPT
                 !.done = TRUE,
                 !.inbound =
                     CASE dsp.path = "poll" ->
                            DispatchPoll(@, dsp.AllowFrom, dsp.BatchComments, dsp.selected)
                       [] dsp.path = "flush" ->
                            DispatchFlush(@, dsp.AllowFrom, dsp.selected)
                       [] OTHER ->
                            DispatchSuperChats(@, dsp.AllowFrom, dsp.selected)]
    /\ DispatchSame

-----------------------------------------------------------------------------
(* YouTubeChannel: innerTubePollLoop and fallbackToDataAPI.  The loop is at  *)
(* "fetch" before fetchInnerTubeChat, at "sleep" in the 5 s pause after an   *)
(* error, at "fallback" once the error count has reached the limit, and at   *)
(* "returned" after it.  fetched lists the results of the fetches the loop   *)
(* handled while its context was live; events lists, in order, the           *)
(* cancellations of the polling context ("cancel"), the start of the REST    *)
(* poll loop ("pollLoop") and the calls of onStreamEnded ("streamEnded").    *)

MaxFetches == 7    \* fetches handled by one loop

\* results of fetchInnerTubeChat: no error without and with messages, an
\* error, ErrLiveStreamOver
FetchResults == {"none", "msgs", "err", "over"}

NewInnerTubeLoop(apiKey, liveChatID) ==
    [APIKey |-> apiKey, liveChatID |-> liveChatID, pc |-> "fetch",
     consecutiveErrors |-> 0, cancel |-> TRUE, ctxDone |-> FALSE,
     running |-> TRUE, fetched |-> <<>>, events |-> <<>>]

\* a variant that keeps the count after a successful fetch
CountKept(n) == n

\* consecutiveErrors = 0 (line 1236)
CountReset(n) == 0

\* Stop(ctx): cancels the polling context
ScrapeStop ==
    /\ itl.pc # "returned"
    /\ ~itl.ctxDone
    /\ itl' = [itl EXCEPT !.ctxDone = TRUE, !.running = FALSE,
                          !.events = Append(@, "cancel")]
    /\ InnerTubeSame

\* one fetch and what the loop does with its result, up to the next fetch,
\* the pause or the decision to fall back
ScrapeFetch(res) ==
    /\ itl.pc = "fetch"
    /\ Len(itl.fetched) < MaxFetches
    /\ itl' =
         IF itl.ctxDone THEN [itl EXCEPT !.pc = "returned"]
         ELSE IF res = "over"
         THEN [itl EXCEPT !.pc = "returned",
                          !.fetched = Append(@, res),
                          !.events = Append(@, "streamEnded")]
         ELSE IF res = "err"
         THEN [itl EXCEPT !.fetched = Append(@, res),
                          !.consecutiveErrors = @ + 1,
                          !.pc = IF itl.consecutiveErrors + 1 >= innerTubeMaxConsecutiveErrors
                                 THEN "fallback" ELSE "sleep"]
         ELSE [itl EXCEPT !.fetched = Append(@, res),
                          !.consecutiveErrors = CountReset(@)]
    /\ InnerTubeSame

\* case <-ctx.Done(): return
ScrapeCtxDone ==
    /\ itl.pc = "sleep"
    /\ itl.ctxDone
    /\ itl' = [itl EXCEPT !.pc = "returned"]
    /\ InnerTubeSame

\* case <-time.After(5 * time.Second): continue
ScrapeTimer ==
    /\ itl.pc = "sleep"
    /\ itl' = [itl EXCEPT !.pc = "fetch"]
    /\ InnerTubeSame

\* fallbackToDataAPI(ctx); found is the result of fetchActiveLiveChatID
FallbackFromScrape(l, found) ==
    IF l.APIKey = ""
    THEN [l EXCEPT !.events = Append(@, "streamEnded")]
    ELSE IF l.liveChatID = "" /\ ~found
    THEN [l EXCEPT !.events = Append(@, "streamEnded")]
    ELSE [l EXCEPT !.liveChatID = IF @ = "" THEN "found" ELSE @,
                   !.cancel = TRUE,
                   !.running = TRUE,
                   !.events = Append(@, "pollLoop")]

\* if c.cancel != nil { c.cancel() }; c.fallbackToDataAPI(c.parentCtx); return
ScrapeFallback(found) ==
    /\ itl.pc = "fallback"
    /\ LET cancelled == IF itl.cancel
                        THEN [itl EXCEPT !.ctxDone = TRUE,
                                         !.events = Append(@, "cancel")]
                        ELSE itl
       IN  itl' = [FallbackFromScrape(cancelled, found) EXCEPT !.pc = "returned"]
    /\ InnerTubeSame

-----------------------------------------------------------------------------
(* YouTubeChannel: a scrape session with super-chat polling.  After          *)
(* connectToLiveChat (lines 248-258) three tasks share one polling context:  *)
(* innerTubePollLoop (main), flushLoop (flush) and superChatPollLoop (sub).  *)
(* published lists the snippet types the sub-poll handed to processMessage;  *)
(* stopped tells why the sub-poll returned.                                  *)

MaxMainFetches == 2    \* fetches of the scrape loop
MaxSuperChats  == 2    \* messages the sub-poll hands to processMessage

quota    == <<"q","u","o","t","a">>
Exceeded == <<"E","x","c","e","e","d","e","d">>

\* the items of a page: their snippet types
PageItems ==
    UNION {[1..n -> {"textMessageEvent", "superChatEvent"}] : n \in 0..2}

\* answers of fetchSuperChatMessages: a transport or parse error, an API
\* error, a page with its next token
SuperChatAnswers ==
    {[kind |-> "err", err |-> NoError, token |-> "", items |-> <<>>]}
    \cup {[kind |-> "api", err |-> e, token |-> "", items |-> <<>>] : e \in PollErrors}
    \cup {[kind |-> "page", err |-> NoError, token |-> t, items |-> its] :
             t \in {"", "p1"}, its \in PageItems}

NewScrapeSession ==
    [liveChatID |-> "lc", nextPageToken |-> "", superChatPageToken |-> "",
     running |-> TRUE, ctxDone |-> FALSE,
     main |-> "fetch", flush |-> "wait", sub |-> "select",
     stopped |-> "", mainFetches |-> 0, published |-> <<>>]

\* a variant that hands every item of the page on
AllItems(items) == items

\* lines 1348-1352: the items of type superChatEvent
SuperChats(items) == SelectSeq(items, LAMBDA type : type = "superChatEvent")

\* lines 1335-1336: the quota test of the sub-poll
QuotaStop(apiErr) ==
    apiErr.Code = 403 /\ (Contains(apiErr.Message, quota) \/ Contains(apiErr.Message, Exceeded))

\* Stop(ctx)
ScrapeSessionStop ==
    /\ ~sc.ctxDone
    /\ sc' = [sc EXCEPT !.ctxDone = TRUE, !.running = FALSE]
    /\ SuperChatSame

\* innerTubePollLoop: one fetch; ErrLiveStreamOver calls onStreamEnded, which
\* cancels the polling context
ScrapeMainFetch(over) ==
    /\ sc.main = "fetch"
    /\ sc.mainFetches < MaxMainFetches
    /\ sc' = IF sc.ctxDone THEN [sc EXCEPT !.main = "returned"]
             ELSE IF over
             THEN [sc EXCEPT !.main = "returned", !.ctxDone = TRUE, !.running = FALSE,
                             !.mainFetches = @ + 1]
             ELSE [sc EXCEPT !.mainFetches = @ + 1]
    /\ SuperChatSame

\* flushLoop, lines 1041-1045: case <-ctx.Done(): return
ScrapeFlushCtxDone ==
    /\ sc.flush = "wait"
    /\ sc.ctxDone
    /\ sc' = [sc EXCEPT !.flush = "returned"]
    /\ SuperChatSame

\* superChatPollLoop, lines 1319-1324: select on ctx.Done() and the ticker
SuperChatSelect(tick) ==
    /\ sc.sub = "select"
    /\ tick \/ sc.ctxDone
    /\ sc' = IF tick THEN [sc EXCEPT !.sub = "fetch"]
             ELSE [sc EXCEPT !.sub = "returned", !.stopped = "cancelled"]
    /\ SuperChatSame

\* superChatPollLoop, lines 1326-1352: one fetchSuperChatMessages and what
\* the loop does with the answer
SuperChatPoll(ans) ==
    /\ sc.sub = "fetch"
    /\ Len(sc.published) + Len(ans.items) <= MaxSuperChats
    /\ sc' = CASE ans.kind = "err" -> [sc EXCEPT !.sub = "select"]
               [] ans.kind = "api" /\ QuotaStop(ans.err) ->
                      [sc EXCEPT !.sub = "returned", !.stopped = "quota"]
               [] ans.kind = "api" /\ ~QuotaStop(ans.err) /\ handleAPIError(ans.err) ->
                      [sc EXCEPT !.sub = "returned", !.stopped = "ended"]
               [] ans.kind = "api" /\ ~QuotaStop(ans.err) /\ ~handleAPIError(ans.err) ->
                      [sc EXCEPT !.sub = "select"]
               [] ans.kind = "page" ->
                      [sc EXCEPT !.sub = "select",
                                 !.superChatPageToken = ans.token,
                                 !.published = @ \o SuperChats(ans.items)]
    /\ SuperChatSame

-----------------------------------------------------------------------------
(* YouTubeChannel: fetchInnerTubeChat.  Each call makes a result channel of  *)
(* capacity 1 and a helper goroutine that runs FetchContinuationChat and     *)
(* sends the result; the caller selects on ctx.Done() and the channel.  A    *)
(* helper is at "fetching", "send" or "exited"; cancelledFirst tells that    *)
(* the context was cancelled while the helper was still fetching.            *)

MaxCalls == 2    \* calls of fetchInnerTubeChat

\* results of FetchContinuationChat: an error, or the next continuation
FetchOutcomes == {[err |-> TRUE, cont |-> ""], [err |-> FALSE, cont |-> "c1"],
                  [err |-> FALSE, cont |-> "c2"]}

\* the helper has no result yet
NoOutcome == [err |-> FALSE, cont |-> ""]

NewFetcher(cont, cancelled) ==
    [innerContinuation |-> cont, ctxDone |-> cancelled, pc |-> "idle",
     helpers |-> <<>>, returns |-> <<>>]

\* the helper of the call in progress
Current == Len(ft.helpers)

\* a variant for a channel without buffer: a send needs the receiver
CanSendUnbuffered(buf, receiving) == receiving

\* ch := make(chan result, 1): a send proceeds while the buffer has room
CanSend(buf, receiving) == Len(buf) < 1

\* lines 1172-1177: the channel is made and the helper launched
FetchCall ==
    /\ ft.pc = "idle"
    /\ Len(ft.helpers) < MaxCalls
    /\ ft' = [ft EXCEPT !.pc = "select",
                        !.helpers = Append(@, [pc |-> "fetching", buf |-> <<>>,
                                               out |-> NoOutcome, sends |-> 0,
                                               cancelledFirst |-> ft.ctxDone])]
    /\ FetchSame

\* the polling context is cancelled
FetchCancel ==
    /\ ~ft.ctxDone
    /\ ft' = [ft EXCEPT !.ctxDone = TRUE,
                        !.helpers = [i \in DOMAIN @ |->
                                        IF @[i].pc = "fetching"
                                        THEN [@[i] EXCEPT !.cancelledFirst = TRUE]
                                        ELSE @[i]]]
    /\ FetchSame

\* line 1175: FetchContinuationChat returns
HelperFetched(i, out) ==
    /\ i \in 1..Len(ft.helpers)
    /\ ft.helpers[i].pc = "fetching"
    /\ ft' = [ft EXCEPT !.helpers[i].pc = "send", !.helpers[i].out = out]
    /\ FetchSame

\* line 1176: ch <- result{msgs, newCont, err}, and the helper exits
HelperSend(i) ==
    /\ i \in 1..Len(ft.helpers)
    /\ ft.helpers[i].pc = "send"
    /\ CanSend(ft.helpers[i].buf, ft.pc = "select" /\ i = Current)
    /\ ft' = [ft EXCEPT !.helpers[i].pc = "exited",
                        !.helpers[i].buf = Append(@, ft.helpers[i].out),
                        !.helpers[i].sends = @ + 1]
    /\ FetchSame

\* what a return of fetchInnerTubeChat leaves behind
Returned(f, kind, cont) ==
    [f EXCEPT !.pc = "idle",
              !.innerContinuation = cont,
              !.returns = Append(@, [kind |-> kind, before |-> f.innerContinuation,
                                     after |-> cont,
                                     helper |-> f.helpers[Len(f.helpers)].pc,
                                     cancelledFirst |-> f.helpers[Len(f.helpers)].cancelledFirst])]

\* lines 1180-1183: case <-ctx.Done(): return nil, ctx.Err()
FetchSelectCtx ==
    /\ ft.pc = "select"
    /\ ft.ctxDone
    /\ ft' = Returned(ft, "ctxErr", ft.innerContinuation)
    /\ FetchSame

\* lines 1184-1188: case r := <-ch
FetchSelectResult ==
    /\ ft.pc = "select"
    /\ ft.helpers[Current].buf # <<>>
    /\ LET r == Head(ft.helpers[Current].buf)
           f == [ft EXCEPT !.helpers[Current].buf = Tail(@)]
       IN  ft' = IF r.err THEN Returned(f, "err", f.innerContinuation)
                 ELSE Returned(f, "ok", r.cont)
    /\ FetchSame

-----------------------------------------------------------------------------
(* YouTubeChannel: initInnerTube, called by connectToLiveChat on behalf of   *)
(* Start or of reconnectLoop, whose context governs the task.  Time is       *)
(* counted in seconds and moves in steps of 10.  lateParses counts the       *)
(* ParseInitialData calls made after the context was cancelled, overslept    *)
(* the seconds slept after it.                                               *)

initAttempts == 3     \* for attempt := 0; attempt < 3; attempt++
initBaseWait == 10    \* wait := (1 << attempt) * 10 s

\* results of ParseInitialData: success, ErrStreamNotLive, another error
ParseResults == {"ok", "notLive", "err"}

NewInitInnerTube(cancelled) ==
    [pc |-> "parse", attempt |-> 0, remaining |-> 0, ctxDone |-> cancelled,
     parses |-> 0, lateParses |-> 0, overslept |-> 0]

\* line 1152: 10 s, 20 s, 40 s
InitWait(attempt) == (2 ^ attempt) * initBaseWait

\* the governing context is cancelled
InitTubeCancel ==
    /\ ~ini.ctxDone
    /\ ini.pc \in {"parse", "sleep"}
    /\ ini' = [ini EXCEPT !.ctxDone = TRUE]
    /\ InitTubeSame

\* lines 1136-1152: one ParseInitialData and what follows it
InitTubeParse(res) ==
    /\ ini.pc = "parse"
    /\ LET counted == [ini EXCEPT !.parses = @ + 1,
                                  !.lateParses = IF ini.ctxDone THEN @ + 1 ELSE @]
       IN  ini' = CASE res = "ok"      -> [counted EXCEPT !.pc = "initialized"]
                    [] res = "notLive" -> [counted EXCEPT !.pc = "failed"]
                    [] OTHER           -> [counted EXCEPT !.pc = "sleep",
                                                          !.remaining = InitWait(ini.attempt)]
    /\ InitTubeSame

\* line 1158: time.Sleep(wait), 10 s of it
InitTubeSleep ==
    /\ ini.pc = "sleep"
    /\ ini.remaining > 0
    /\ ini' = [ini EXCEPT !.remaining = @ - 10,
                          !.overslept = IF ini.ctxDone THEN @ + 10 ELSE @]
    /\ InitTubeSame

\* lines 1135 and 1160: the sleep is over; the next attempt, or the error
\* after the third
InitTubeWake ==
    /\ ini.pc = "sleep"
    /\ ini.remaining = 0
    /\ ini' = [ini EXCEPT !.attempt = @ + 1,
                          !.pc = IF ini.attempt + 1 < initAttempts THEN "parse" ELSE "failed"]
    /\ InitTubeSame

-----------------------------------------------------------------------------
(* YouTubeChannel with accumulate_comments = true across the fallback from   *)
(* the scrape transport to REST.  connectToLiveChat has launched             *)
(* innerTubePollLoop and flushLoop on polling context 1; the fallback        *)
(* cancels it and launches pollLoop and a second flushLoop on context 2.     *)
(* The buffer is the number of comments in it; a flushLoop is at "phase1"    *)
(* (waiting for commentNotify), "wait" (phases 2 and 3), "flush" or          *)
(* "returned".                                                               *)

MaxBuffered == 4    \* comments appended in one run

NewHandover ==
    [transport |-> "scrape", ctx |-> 1, cancelled |-> {},
     commentBuffer |-> 0, commentNotify |-> 0,
     loops |-> <<[ctx |-> 1, pc |-> "phase1"]>>, appended |-> 0]

FlushLoops == 1..Len(fb.loops)

\* the poll loop of the current transport hands comments to appendToBuffer
HandoverAppend ==
    /\ fb.ctx \notin fb.cancelled
    /\ fb.appended < MaxBuffered
    /\ fb' = [fb EXCEPT !.commentBuffer = @ + 1, !.commentNotify = 1,
                        !.appended = @ + 1]
    /\ HandoverSame

\* flushLoop, line 1047: case <-c.commentNotify
HandoverPhase1(l) ==
    /\ l \in FlushLoops
    /\ fb.loops[l].pc = "phase1"
    /\ fb.commentNotify = 1
    /\ fb' = [fb EXCEPT !.commentNotify = 0, !.loops[l].pc = "wait"]
    /\ HandoverSame

\* flushLoop, lines 1051-1069: the waits of phases 2 and 3 are over
HandoverWaited(l) ==
    /\ l \in FlushLoops
    /\ fb.loops[l].pc = "wait"
    /\ fb' = [fb EXCEPT !.loops[l].pc = "flush"]
    /\ HandoverSame

\* flushLoop, line 1073: flushCommentBuffer drains the buffer
HandoverFlush(l) ==
    /\ l \in FlushLoops
    /\ fb.loops[l].pc = "flush"
    /\ fb' = [fb EXCEPT !.commentBuffer = 0, !.loops[l].pc = "phase1"]
    /\ HandoverSame

\* flushLoop, lines 1045-1046, 1053-1054, 1062-1063: case <-ctx.Done()
HandoverCtxDone(l) ==
    /\ l \in FlushLoops
    /\ fb.loops[l].pc \in {"phase1", "wait"}
    /\ fb.loops[l].ctx \in fb.cancelled
    /\ fb' = [fb EXCEPT !.loops[l].pc = "returned"]
    /\ HandoverSame

\* innerTubePollLoop lines 1218-1226 and fallbackToDataAPI lines 1293-1301:
\* the polling context is cancelled, a new one is made, pollLoop and a new
\* flushLoop are launched
HandoverFallback ==
    /\ fb.transport = "scrape"
    /\ fb' = [fb EXCEPT !.transport = "rest",
                        !.cancelled = @ \cup {fb.ctx},
                        !.ctx = fb.ctx + 1,
                        !.loops = Append(@, [ctx |-> fb.ctx + 1, pc |-> "phase1"])]
    /\ HandoverSame

-----------------------------------------------------------------------------
(* YouTubeChannel with channel_id set: which live chat id the REST poll and  *)
(* the super-chat sub-poll send, across streams.  Streams are numbered; the  *)
(* video id 0 is "".  A live chat id records the video it was obtained for   *)
(* (0 in the id ""), or that it is the configured one.  The channel is at    *)
(* "resolving" (Start or reconnectLoop look for a stream), "scrape" or       *)
(* "rest"; sub tells that superChatPollLoop runs.                            *)

MaxStreams == 2    \* streams resolved in one run

\* chat_source, whether api_key is set, whether superchat_poll_seconds > 0,
\* whether live_chat_id is configured
FreshConfigs ==
    {cfg \in [ChatSource : {"innertube", "data_api"}, hasKey : BOOLEAN,
              superchat : BOOLEAN, hasLiveChatID : BOOLEAN] :
        ~(cfg.ChatSource = "data_api" /\ ~cfg.hasKey)}

NoFreshConfig ==
    [ChatSource |-> "innertube", hasKey |-> FALSE, superchat |-> FALSE,
     hasLiveChatID |-> FALSE]

NoChatID      == [video |-> 0, configured |-> FALSE]
ConfiguredID  == [video |-> 0, configured |-> TRUE]

\* the id fetchActiveLiveChatID returns for the video
ChatIDOf(video) == [video |-> video, configured |-> FALSE]

NewFreshness(cfg) ==
    [config |-> cfg, VideoID |-> 0, liveChatID |-> NoChatID, pc |-> "resolving",
     sub |-> FALSE, streams |-> 0, queries |-> {}]

\* answers of fetchActiveLiveChatID: an error, no active chat, the chat id
FreshChatAnswers == {"err", "none", "ok"}

\* onStreamEnded(ctx) with channel_id set: liveChatID is left as it is
FreshStreamEnded(f) == [f EXCEPT !.VideoID = 0, !.pc = "resolving", !.sub = FALSE]

\* fallbackToDataAPI(ctx)
FreshFallback(f, chat) ==
    IF ~f.config.hasKey THEN FreshStreamEnded(f)
    ELSE IF f.liveChatID = NoChatID /\ chat = "err" THEN FreshStreamEnded(f)
    ELSE [f EXCEPT !.liveChatID = IF @ # NoChatID THEN @
                                   ELSE IF chat = "ok" THEN ChatIDOf(f.VideoID)
                                   ELSE NoChatID,
                   !.pc = "rest", !.sub = FALSE]

\* connectToLiveChat(ctx); init: initInnerTube succeeds
FreshConnect(f, init, chat) ==
    IF f.config.ChatSource = "innertube"
    THEN IF ~init THEN FreshFallback(f, chat)
         ELSE LET id == IF f.config.hasKey /\ f.config.superchat
                        THEN IF f.config.hasLiveChatID THEN ConfiguredID
                             ELSE IF chat = "err" THEN f.liveChatID
                             ELSE IF chat = "ok" THEN ChatIDOf(f.VideoID)
                             ELSE NoChatID
                        ELSE f.liveChatID
              IN  [f EXCEPT !.liveChatID = id, !.pc = "scrape",
                            !.sub = (id # NoChatID /\ f.config.superchat)]
    ELSE IF f.config.hasLiveChatID
         THEN [f EXCEPT !.liveChatID = ConfiguredID, !.pc = "rest"]
         ELSE IF chat = "ok"
              THEN [f EXCEPT !.liveChatID = ChatIDOf(f.VideoID), !.pc = "rest"]
              ELSE f

\* Start, or one attempt of reconnectLoop, finds the next stream and connects
FreshResolve(init, chat) ==
    /\ lcv.pc = "resolving"
    /\ lcv.streams < MaxStreams
    /\ lcv' = FreshConnect([lcv EXCEPT !.VideoID = lcv.streams + 1,
                                       !.streams = @ + 1], init, chat)
    /\ FreshSame

\* pollOnce: fetchLiveChatMessages asks with c.liveChatID
FreshRestQuery ==
    /\ lcv.pc = "rest"
    /\ lcv' = [lcv EXCEPT !.queries = @ \cup {[by |-> "rest", chat |-> lcv.liveChatID,
                                               video |-> lcv.VideoID]}]
    /\ FreshSame

\* superChatPollLoop: fetchSuperChatMessages asks with c.liveChatID
FreshSubQuery ==
    /\ lcv.sub
    /\ lcv' = [lcv EXCEPT !.queries = @ \cup {[by |-> "sub", chat |-> lcv.liveChatID,
                                               video |-> lcv.VideoID]}]
    /\ FreshSame

\* innerTubePollLoop: the fifth consecutive error, fallbackToDataAPI
FreshScrapeFails(chat) ==
    /\ lcv.pc = "scrape"
    /\ lcv' = FreshFallback(lcv, chat)
    /\ FreshSame

\* the stream ends: ErrLiveStreamOver, or pollOnce reports the end
FreshStreamEnd ==
    /\ lcv.pc \in {"scrape", "rest"}
    /\ lcv' = FreshStreamEnded(lcv)
    /\ FreshSame

-----------------------------------------------------------------------------
(* Initial states and specifications *)

\* the state NewAITuberChannel returns for configuration cfg; browsers are the
\* connections that will ever be opened against it
AvatarCreated(cfg, browsers) ==
    /\ config = cfg
    /\ queueSize = NewQueueSize(cfg)
    /\ clients = {}
    /\ sendQueue = <<>>
    /\ ttsDone = 0
    /\ aRunning = FALSE
    /\ aPhase = "created"
    /\ ctxDone = FALSE
    /\ serverUp = FALSE
    /\ conn = [c \in Conns |-> IF c \in browsers THEN "none" ELSE "absent"]
    /\ rpump = [c \in Conns |-> "none"]
    /\ wpc = "off"
    /\ wmsg = <<>>
    /\ spc = [s \in Senders |-> "idle"]
    /\ smsg = [s \in Senders |-> <<>>]
    /\ sendLog = <<>>
    /\ delivered = <<>>
    /\ since = NoSince
    /\ nCalls = 0
    /\ overlap = FALSE
    /\ sentEarly = FALSE
    /\ firstClient = [conn |-> "none", sends |-> 0, quiet |-> TRUE]

ParseIdle ==
    /\ pContent = <<>>
    /\ pDefault = <<>>
    /\ pResult = <<>>

\* everything but the two harnesses of the ingestion pipeline at rest
OthersIdle ==
    /\ ParseIdle
    /\ AvatarCreated([DefaultEmotion |-> <<>>, MaxQueueSize |-> 0], {})
    /\ yt = NewYouTubeChannel([ChatSource |-> "innertube", APIKey |-> "", ChannelID |-> "",
                               VideoID |-> "vid", LiveChatID |-> ""])
    /\ yPhase = "created"

\* no call of preFilter or selectComments
FilterIdle ==
    /\ fConfig = [NGWords |-> <<>>, MinMessageLength |-> 0, MaxRepeatRatio |-> NoRatio,
                  BlockURLs |-> FALSE]
    /\ fItems = <<>>
    /\ fOut = Pending

SelectIdle ==
    /\ sConfig = [MaxCommentsPerPoll |-> 0, SelectionStrategy |-> ""]
    /\ sMsgs = <<>>
    /\ sOut = [done |-> FALSE, msgs |-> <<>>]

\* no accumulation and no cursor traffic
AccumIdle == acc = NewAccumulator([min |-> 1, max |-> 1, hasTTS |-> FALSE])

CursorsIdle == tok = NewCursors

\* the components studied one at a time are at rest
AuxIdle ==
    /\ api = [err |-> [Code |-> 0, Message |-> <<>>], done |-> FALSE, ended |-> FALSE]
    /\ snd = NewSender([ForwardChannel |-> "", ForwardChatID |-> ""])
    /\ ctor = NotConstructed(NoConfig)
    /\ rc = NewReconnectLoop("innertube")
    /\ ses = NewSession("")
    /\ dsp = NewDispatch({}, FALSE, "poll", <<>>)
    /\ itl = NewInnerTubeLoop("", "")
    /\ sc = NewScrapeSession
    /\ ft = NewFetcher("c0", FALSE)
    /\ ini = NewInitInnerTube(FALSE)
    /\ fb = NewHandover
    /\ lcv = NewFreshness(NoFreshConfig)

\* everything but the handleAPIError harness at rest
ApiAlone ==
    /\ OthersIdle
    /\ FilterIdle
    /\ SelectIdle
    /\ AccumIdle
    /\ CursorsIdle
    /\ snd = NewSender([ForwardChannel |-> "", ForwardChatID |-> ""])
    /\ ctor = NotConstructed(NoConfig)
    /\ rc = NewReconnectLoop("innertube")
    /\ ses = NewSession("")
    /\ dsp = NewDispatch({}, FALSE, "poll", <<>>)
    /\ itl = NewInnerTubeLoop("", "")
    /\ sc = NewScrapeSession
    /\ ft = NewFetcher("c0", FALSE)
    /\ ini = NewInitInnerTube(FALSE)
    /\ fb = NewHandover
    /\ lcv = NewFreshness(NoFreshConfig)

\* everything but YouTubeChannel.Send at rest
SendAlone ==
    /\ OthersIdle
    /\ FilterIdle
    /\ SelectIdle
    /\ AccumIdle
    /\ CursorsIdle
    /\ api = [err |-> [Code |-> 0, Message |-> <<>>], done |-> FALSE, ended |-> FALSE]
    /\ ctor = NotConstructed(NoConfig)
    /\ rc = NewReconnectLoop("innertube")
    /\ ses = NewSession("")
    /\ dsp = NewDispatch({}, FALSE, "poll", <<>>)
    /\ itl = NewInnerTubeLoop("", "")
    /\ sc = NewScrapeSession
    /\ ft = NewFetcher("c0", FALSE)
    /\ ini = NewInitInnerTube(FALSE)
    /\ fb = NewHandover
    /\ lcv = NewFreshness(NoFreshConfig)

\* everything but the NewYouTubeChannel harness at rest
CtorAlone ==
    /\ OthersIdle
    /\ FilterIdle
    /\ SelectIdle
    /\ AccumIdle
    /\ CursorsIdle
    /\ api = [err |-> [Code |-> 0, Message |-> <<>>], done |-> FALSE, ended |-> FALSE]
    /\ snd = NewSender([ForwardChannel |-> "", ForwardChatID |-> ""])
    /\ rc = NewReconnectLoop("innertube")
    /\ ses = NewSession("")
    /\ dsp = NewDispatch({}, FALSE, "poll", <<>>)
    /\ itl = NewInnerTubeLoop("", "")
    /\ sc = NewScrapeSession
    /\ ft = NewFetcher("c0", FALSE)
    /\ ini = NewInitInnerTube(FALSE)
    /\ fb = NewHandover
    /\ lcv = NewFreshness(NoFreshConfig)

\* everything but reconnectLoop at rest
ReconnectAlone ==
    /\ OthersIdle
    /\ FilterIdle
    /\ SelectIdle
    /\ AccumIdle
    /\ CursorsIdle
    /\ api = [err |-> [Code |-> 0, Message |-> <<>>], done |-> FALSE, ended |-> FALSE]
    /\ snd = NewSender([ForwardChannel |-> "", ForwardChatID |-> ""])
    /\ ctor = NotConstructed(NoConfig)
    /\ ses = NewSession("")
    /\ dsp = NewDispatch({}, FALSE, "poll", <<>>)
    /\ itl = NewInnerTubeLoop("", "")
    /\ sc = NewScrapeSession
    /\ ft = NewFetcher("c0", FALSE)
    /\ ini = NewInitInnerTube(FALSE)
    /\ fb = NewHandover
    /\ lcv = NewFreshness(NoFreshConfig)

\* everything but the REST polling session at rest
SessionAlone ==
    /\ OthersIdle
    /\ FilterIdle
    /\ SelectIdle
    /\ AccumIdle
    /\ CursorsIdle
    /\ api = [err |-> [Code |-> 0, Message |-> <<>>], done |-> FALSE, ended |-> FALSE]
    /\ snd = NewSender([ForwardChannel |-> "", ForwardChatID |-> ""])
    /\ ctor = NotConstructed(NoConfig)
    /\ rc = NewReconnectLoop("innertube")
    /\ dsp = NewDispatch({}, FALSE, "poll", <<>>)
    /\ itl = NewInnerTubeLoop("", "")
    /\ sc = NewScrapeSession
    /\ ft = NewFetcher("c0", FALSE)
    /\ ini = NewInitInnerTube(FALSE)
    /\ fb = NewHandover
    /\ lcv = NewFreshness(NoFreshConfig)

\* everything but the dispatch harness at rest
DispatchAlone ==
    /\ OthersIdle
    /\ FilterIdle
    /\ SelectIdle
    /\ AccumIdle
    /\ CursorsIdle
    /\ api = [err |-> [Code |-> 0, Message |-> <<>>], done |-> FALSE, ended |-> FALSE]
    /\ snd = NewSender([ForwardChannel |-> "", ForwardChatID |-> ""])
    /\ ctor = NotConstructed(NoConfig)
    /\ rc = NewReconnectLoop("innertube")
    /\ ses = NewSession("")
    /\ itl = NewInnerTubeLoop("", "")
    /\ sc = NewScrapeSession
    /\ ft = NewFetcher("c0", FALSE)
    /\ ini = NewInitInnerTube(FALSE)
    /\ fb = NewHandover
    /\ lcv = NewFreshness(NoFreshConfig)

\* everything but the scrape poll loop at rest
InnerTubeAlone ==
    /\ OthersIdle
    /\ FilterIdle
    /\ SelectIdle
    /\ AccumIdle
    /\ CursorsIdle
    /\ api = [err |-> [Code |-> 0, Message |-> <<>>], done |-> FALSE, ended |-> FALSE]
    /\ snd = NewSender([ForwardChannel |-> "", ForwardChatID |-> ""])
    /\ ctor = NotConstructed(NoConfig)
    /\ rc = NewReconnectLoop("innertube")
    /\ ses = NewSession("")
    /\ dsp = NewDispatch({}, FALSE, "poll", <<>>)
    /\ sc = NewScrapeSession
    /\ ft = NewFetcher("c0", FALSE)
    /\ ini = NewInitInnerTube(FALSE)
    /\ fb = NewHandover
    /\ lcv = NewFreshness(NoFreshConfig)

\* everything but the scrape session with the super-chat sub-poll at rest
SuperChatAlone ==
    /\ OthersIdle
    /\ FilterIdle
    /\ SelectIdle
    /\ AccumIdle
    /\ CursorsIdle
    /\ api = [err |-> [Code |-> 0, Message |-> <<>>], done |-> FALSE, ended |-> FALSE]
    /\ snd = NewSender([ForwardChannel |-> "", ForwardChatID |-> ""])
    /\ ctor = NotConstructed(NoConfig)
    /\ rc = NewReconnectLoop("innertube")
    /\ ses = NewSession("")
    /\ dsp = NewDispatch({}, FALSE, "poll", <<>>)
    /\ itl = NewInnerTubeLoop("", "")
    /\ ft = NewFetcher("c0", FALSE)
    /\ ini = NewInitInnerTube(FALSE)
    /\ fb = NewHandover
    /\ lcv = NewFreshness(NoFreshConfig)

\* everything but the scrape fetch at rest
FetchAlone ==
    /\ OthersIdle
    /\ FilterIdle
    /\ SelectIdle
    /\ AccumIdle
    /\ CursorsIdle
    /\ api = [err |-> [Code |-> 0, Message |-> <<>>], done |-> FALSE, ended |-> FALSE]
    /\ snd = NewSender([ForwardChannel |-> "", ForwardChatID |-> ""])
    /\ ctor = NotConstructed(NoConfig)
    /\ rc = NewReconnectLoop("innertube")
    /\ ses = NewSession("")
    /\ dsp = NewDispatch({}, FALSE, "poll", <<>>)
    /\ itl = NewInnerTubeLoop("", "")
    /\ sc = NewScrapeSession
    /\ ini = NewInitInnerTube(FALSE)
    /\ fb = NewHandover
    /\ lcv = NewFreshness(NoFreshConfig)

\* everything but the scrape initialization at rest
InitTubeAlone ==
    /\ OthersIdle
    /\ FilterIdle
    /\ SelectIdle
    /\ AccumIdle
    /\ CursorsIdle
    /\ api = [err |-> [Code |-> 0, Message |-> <<>>], done |-> FALSE, ended |-> FALSE]
    /\ snd = NewSender([ForwardChannel |-> "", ForwardChatID |-> ""])
    /\ ctor = NotConstructed(NoConfig)
    /\ rc = NewReconnectLoop("innertube")
    /\ ses = NewSession("")
    /\ dsp = NewDispatch({}, FALSE, "poll", <<>>)
    /\ itl = NewInnerTubeLoop("", "")
    /\ sc = NewScrapeSession
    /\ ft = NewFetcher("c0", FALSE)
    /\ fb = NewHandover
    /\ lcv = NewFreshness(NoFreshConfig)

\* everything but the accumulation across the fallback at rest
HandoverAlone ==
    /\ OthersIdle
    /\ FilterIdle
    /\ SelectIdle
    /\ AccumIdle
    /\ CursorsIdle
    /\ api = [err |-> [Code |-> 0, Message |-> <<>>], done |-> FALSE, ended |-> FALSE]
    /\ snd = NewSender([ForwardChannel |-> "", ForwardChatID |-> ""])
    /\ ctor = NotConstructed(NoConfig)
    /\ rc = NewReconnectLoop("innertube")
    /\ ses = NewSession("")
    /\ dsp = NewDispatch({}, FALSE, "poll", <<>>)
    /\ itl = NewInnerTubeLoop("", "")
    /\ sc = NewScrapeSession
    /\ ft = NewFetcher("c0", FALSE)
    /\ ini = NewInitInnerTube(FALSE)
    /\ lcv = NewFreshness(NoFreshConfig)

\* everything but the live chat id across streams at rest
FreshAlone ==
    /\ OthersIdle
    /\ FilterIdle
    /\ SelectIdle
    /\ AccumIdle
    /\ CursorsIdle
    /\ api = [err |-> [Code |-> 0, Message |-> <<>>], done |-> FALSE, ended |-> FALSE]
    /\ snd = NewSender([ForwardChannel |-> "", ForwardChatID |-> ""])
    /\ ctor = NotConstructed(NoConfig)
    /\ rc = NewReconnectLoop("innertube")
    /\ ses = NewSession("")
    /\ dsp = NewDispatch({}, FALSE, "poll", <<>>)
    /\ itl = NewInnerTubeLoop("", "")
    /\ sc = NewScrapeSession
    /\ ft = NewFetcher("c0", FALSE)
    /\ ini = NewInitInnerTube(FALSE)
    /\ fb = NewHandover

\* a YouTubeChannel that is constructed and never started
YouTubeIdle ==
    /\ FilterIdle
    /\ SelectIdle
    /\ AccumIdle
    /\ CursorsIdle
    /\ yt = NewYouTubeChannel([ChatSource |-> "innertube", APIKey |-> "", ChannelID |-> "",
                               VideoID |-> "vid", LiveChatID |-> ""])
    /\ yPhase = "created"

AvatarConfigs ==
    [DefaultEmotion : {<<>>, excited}, MaxQueueSize : 0..MaxQueueSizeCfg]

InitAvatar ==
    /\ AuxIdle
    /\ ParseIdle
    /\ YouTubeIdle
    /\ \E cfg \in AvatarConfigs : AvatarCreated(cfg, {"c1"})

NextAvatar ==
    \/ Start
    \/ Stop
    \/ \E c \in Conns : Upgrade(c)
    \/ \E c \in Conns : Register(c)
    \/ \E c \in Conns : ReadTTSComplete(c)
    \/ \E c \in Conns : ReadError(c)
    \/ \E s \in Senders : SendSelect(s)
    \/ \E s \in Senders : SendDrop(s)
    \/ \E s \in Senders : SendPut(s)
    \/ WorkerDequeue
    \/ WorkerBroadcast
    \/ WorkerTTSDone
    \/ WorkerTimeout
    \/ WorkerCtxDone

SpecAvatar == InitAvatar /\ [][NextAvatar]_vars

\* the avatar channel with two browser connections and one sender that never
\* overflows the queue
InitClients ==
    /\ AuxIdle
    /\ ParseIdle
    /\ YouTubeIdle
    /\ AvatarCreated([DefaultEmotion |-> <<>>, MaxQueueSize |-> 0], Conns)

NextClients ==
    \/ Start
    \/ Stop
    \/ \E c \in Conns : Upgrade(c)
    \/ \E c \in Conns : Register(c)
    \/ \E c \in Conns : ReadTTSComplete(c)
    \/ \E c \in Conns : ReadError(c)
    \/ SendSelect("s1")
    \/ WorkerDequeue
    \/ WorkerBroadcast
    \/ WorkerTTSDone
    \/ WorkerTimeout
    \/ WorkerCtxDone

SpecClients == InitClients /\ [][NextClients]_vars

InitParse ==
    /\ AuxIdle
    /\ pContent \in Contents
    /\ pDefault \in DefaultEmotions
    /\ pResult = <<>>
    /\ AvatarCreated([DefaultEmotion |-> <<>>, MaxQueueSize |-> 0], {})
    /\ YouTubeIdle

NextParse == ParseCall

SpecParse == InitParse /\ [][NextParse]_vars

InitIngest ==
    /\ AuxIdle
    /\ ParseIdle
    /\ FilterIdle
    /\ SelectIdle
    /\ AccumIdle
    /\ CursorsIdle
    /\ AvatarCreated([DefaultEmotion |-> <<>>, MaxQueueSize |-> 0], {})
    /\ \E cfg \in YouTubeConfigs : yt = NewYouTubeChannel(cfg)
    /\ yPhase = "created"

NextIngest ==
    \/ \E found \in BOOLEAN, net \in NetAnswers : YouTubeStart(found, net)
    \/ YouTubeStop
    \/ \E t \in Tasks, ans \in InnerTubeAnswers : InnerTubeFetch(t, ans)
    \/ \E t \in Tasks, chat \in ChatAnswers : InnerTubeHandle(t, chat)
    \/ \E t \in Tasks, woken \in BOOLEAN : InnerTubeSleep(t, woken)
    \/ \E t \in Tasks, ans \in PollAnswers : PollOnce(t, ans)
    \/ \E t \in Tasks, tick \in BOOLEAN : PollSelect(t, tick)
    \/ \E t \in Tasks, woken \in BOOLEAN : ReconnectSelect(t, woken)
    \/ \E t \in Tasks, found \in BOOLEAN, net \in NetAnswers : ReconnectResolve(t, found, net)

SpecIngest == InitIngest /\ [][NextIngest]_vars

InitFilter ==
    /\ AuxIdle
    /\ OthersIdle
    /\ SelectIdle
    /\ AccumIdle
    /\ CursorsIdle
    /\ fConfig \in FilterConfigs
    /\ fItems \in ItemLists
    /\ fOut = Pending

NextFilter == PreFilterCall

SpecFilter == InitFilter /\ [][NextFilter]_vars

InitSelect ==
    /\ AuxIdle
    /\ OthersIdle
    /\ FilterIdle
    /\ AccumIdle
    /\ CursorsIdle
    /\ sConfig \in SelectConfigs
    /\ sMsgs \in MsgLists
    /\ sOut = [done |-> FALSE, msgs |-> <<>>]

NextSelect == SelectCall

SpecSelect == InitSelect /\ [][NextSelect]_vars

InitAccum ==
    /\ AuxIdle
    /\ OthersIdle
    /\ FilterIdle
    /\ SelectIdle
    /\ CursorsIdle
    /\ \E cfg \in AccumConfigs : acc = NewAccumulator(cfg)

NextAccum ==
    \/ AppendToBuffer
    \/ TTSReadySignal
    \/ AccumCancel
    \/ FlushPhase1
    \/ FlushPhase2
    \/ FlushPhase3TTS
    \/ FlushPhase3Timeout
    \/ FlushCtxDone
    \/ FlushCommentBuffer
    \/ Tick

SpecAccum == InitAccum /\ [][NextAccum]_vars

InitCursors ==
    /\ AuxIdle
    /\ OthersIdle
    /\ FilterIdle
    /\ SelectIdle
    /\ AccumIdle
    /\ tok = NewCursors

NextCursors ==
    \/ ConnectScrape
    \/ ConnectREST
    \/ Fallback
    \/ \E ans \in ListAnswers : MainPoll(ans)
    \/ MainTick
    \/ \E tick \in BOOLEAN : SubSelect(tick)
    \/ \E ans \in ListAnswers : SubPoll(ans)

SpecCursors == InitCursors /\ [][NextCursors]_vars

InitErrors ==
    /\ ApiAlone
    /\ \E e \in APIErrors : api = [err |-> e, done |-> FALSE, ended |-> FALSE]

NextErrors == HandleAPIErrorCall

SpecErrors == InitErrors /\ [][NextErrors]_vars

InitSend ==
    /\ SendAlone
    /\ \E cfg \in ForwardConfigs : snd = NewSender(cfg)

NextSend == \E msg \in Replies : YouTubeSend(msg)

SpecSend == InitSend /\ [][NextSend]_vars

InitConstruct ==
    /\ CtorAlone
    /\ \E cfg \in RawConfigs : ctor = NotConstructed(cfg)

NextConstruct == NewYouTubeChannelCall

SpecConstruct == InitConstruct /\ [][NextConstruct]_vars

InitReconnect ==
    /\ ReconnectAlone
    /\ \E cs \in {"innertube", "data_api"} : rc = NewReconnectLoop(cs)

NextReconnect ==
    \/ ReconnectCancel
    \/ ReconnectCtxDone
    \/ ReconnectTimer
    \/ \E rss \in BOOLEAN, search \in BOOLEAN, connected \in BOOLEAN :
          ReconnectAttempt(rss, search, connected)

SpecReconnect == InitReconnect /\ [][NextReconnect]_vars

InitSession ==
    /\ SessionAlone
    /\ \E id \in {"", "UC"} : ses = NewSession(id)

NextSession ==
    \/ SessionStop
    \/ \E found \in BOOLEAN, chat \in BOOLEAN : SessionStart(found, chat)
    \/ \E t \in 1..MaxSessions, ans \in PageAnswers : SessionPoll(t, ans)
    \/ \E t \in 1..MaxSessions, tick \in BOOLEAN : SessionSelect(t, tick)
    \/ \E t \in 1..MaxSessions : StreamEndDiscard(t)
    \/ \E t \in 1..MaxSessions : StreamEndCancel(t)
    \/ \E t \in 1..MaxSessions : StreamEndSetRunning(t)
    \/ \E t \in 1..MaxSessions : StreamEndLaunch(t)
    \/ SessionFlush

SpecSession == InitSession /\ [][NextSession]_vars

\* one session of a channel that Start has connected; it is not started again
InitPolling ==
    /\ SessionAlone
    /\ \E id \in {"", "UC"} :
          ses = [Connected(NewSession(id)) EXCEPT !.phase = "started"]

NextPolling ==
    \/ SessionStop
    \/ \E ans \in PageAnswers : SessionPoll(1, ans)
    \/ \E tick \in BOOLEAN : SessionSelect(1, tick)
    \/ StreamEndDiscard(1)
    \/ StreamEndCancel(1)
    \/ StreamEndSetRunning(1)
    \/ StreamEndLaunch(1)
    \/ SessionFlush

SpecPolling == InitPolling /\ [][NextPolling]_vars

InitDispatch ==
    /\ DispatchAlone
    /\ \E allow \in {{}, {"UCa"}}, batch \in BOOLEAN, path \in DispatchPaths,
          selected \in CommentLists :
          dsp = NewDispatch(allow, batch, path, selected)

NextDispatch == DispatchCall

SpecDispatch == InitDispatch /\ [][NextDispatch]_vars

InitInnerTube ==
    /\ InnerTubeAlone
    /\ \E apiKey \in {"", "key"}, liveChatID \in {"", "chat1"} :
          itl = NewInnerTubeLoop(apiKey, liveChatID)

NextInnerTube ==
    \/ ScrapeStop
    \/ \E res \in FetchResults : ScrapeFetch(res)
    \/ ScrapeCtxDone
    \/ ScrapeTimer
    \/ \E found \in BOOLEAN : ScrapeFallback(found)

SpecInnerTube == InitInnerTube /\ [][NextInnerTube]_vars

InitSuperChat ==
    /\ SuperChatAlone
    /\ sc = NewScrapeSession

NextSuperChat ==
    \/ ScrapeSessionStop
    \/ \E over \in BOOLEAN : ScrapeMainFetch(over)
    \/ ScrapeFlushCtxDone
    \/ \E tick \in BOOLEAN : SuperChatSelect(tick)
    \/ \E ans \in SuperChatAnswers : SuperChatPoll(ans)

SpecSuperChat == InitSuperChat /\ [][NextSuperChat]_vars

InitFetch ==
    /\ FetchAlone
    /\ \E cancelled \in BOOLEAN : ft = NewFetcher("c0", cancelled)

NextFetch ==
    \/ FetchCall
    \/ FetchCancel
    \/ \E i \in 1..MaxCalls, out \in FetchOutcomes : HelperFetched(i, out)
    \/ \E i \in 1..MaxCalls : HelperSend(i)
    \/ FetchSelectCtx
    \/ FetchSelectResult

\* a helper that has its result sends it: the goroutine is scheduled
SpecFetch ==
    /\ InitFetch
    /\ [][NextFetch]_vars
    /\ \A i \in 1..MaxCalls : WF_vars(HelperSend(i))

\* the avatar channel with one browser connection, one sender and a queue of
\* capacity 1
InitProgress ==
    /\ AuxIdle
    /\ ParseIdle
    /\ YouTubeIdle
    /\ AvatarCreated([DefaultEmotion |-> <<>>, MaxQueueSize |-> 1], {"c1"})

NextProgress ==
    \/ Start
    \/ Stop
    \/ Upgrade("c1")
    \/ Register("c1")
    \/ ReadTTSComplete("c1")
    \/ ReadError("c1")
    \/ SendSelect("s1")
    \/ SendDrop("s1")
    \/ SendPut("s1")
    \/ WorkerDequeue
    \/ WorkerBroadcast
    \/ WorkerTTSDone
    \/ WorkerTimeout
    \/ WorkerCtxDone

\* the avatar channel with a scheduled sendWorker: a payload at the head of
\* the queue is received, a payload received is broadcast, and the 30 s timer
\* of the wait fires
SpecProgress ==
    /\ InitProgress
    /\ [][NextProgress]_vars
    /\ WF_vars(WorkerDequeue)
    /\ WF_vars(WorkerBroadcast)
    /\ WF_vars(WorkerTimeout)

InitInitTube ==
    /\ InitTubeAlone
    /\ \E cancelled \in BOOLEAN : ini = NewInitInnerTube(cancelled)

NextInitTube ==
    \/ InitTubeCancel
    \/ \E res \in ParseResults : InitTubeParse(res)
    \/ InitTubeSleep
    \/ InitTubeWake

SpecInitTube == InitInitTube /\ [][NextInitTube]_vars

InitHandover ==
    /\ HandoverAlone
    /\ fb = NewHandover

NextHandover ==
    \/ HandoverAppend
    \/ HandoverFallback
    \/ \E l \in 1..2 : HandoverPhase1(l)
    \/ \E l \in 1..2 : HandoverWaited(l)
    \/ \E l \in 1..2 : HandoverFlush(l)
    \/ \E l \in 1..2 : HandoverCtxDone(l)

\* every flushLoop is scheduled and its timers fire
SpecHandover ==
    /\ InitHandover
    /\ [][NextHandover]_vars
    /\ \A l \in 1..2 :
          /\ WF_vars(HandoverPhase1(l))
          /\ WF_vars(HandoverWaited(l))
          /\ WF_vars(HandoverFlush(l))
          /\ WF_vars(HandoverCtxDone(l))

InitFresh ==
    /\ FreshAlone
    /\ \E cfg \in FreshConfigs : lcv = NewFreshness(cfg)

NextFresh ==
    \/ \E init \in BOOLEAN, chat \in FreshChatAnswers : FreshResolve(init, chat)
    \/ FreshRestQuery
    \/ FreshSubQuery
    \/ \E chat \in FreshChatAnswers : FreshScrapeFails(chat)
    \/ FreshStreamEnd

SpecFresh == InitFresh /\ [][NextFresh]_vars

-----------------------------------------------------------------------------
(* Definitions used to state the properties *)

\* the six emotions the wire format names
RecognisedEmotions ==
    { <<"n","e","u","t","r","a","l">>, <<"h","a","p","p","y">>, <<"s","a","d">>,
      <<"a","n","g","r","y">>, <<"r","e","l","a","x","e","d">>,
      <<"s","u","r","p","r","i","s","e","d">> }

\* positions of s that hold no white space
Inked(s) == {i \in 1..Len(s) : ~IsSpace(s[i])}

SetMin(S) == CHOOSE x \in S : \A y \in S : x <= y
SetMax(S) == CHOOSE x \in S : \A y \in S : x >= y

\* s without its leading white space
RefTrimLeading(s) ==
    IF Inked(s) = {} THEN <<>> ELSE SubSeq(s, SetMin(Inked(s)), Len(s))

\* s without its leading and trailing white space
RefTrimBoth(s) ==
    IF Inked(s) = {} THEN <<>> ELSE SubSeq(s, SetMin(Inked(s)), SetMax(Inked(s)))

\* content begins with "[tag]" where tag, lower-cased, is the emotion e
BeginsWithTag(content, e) ==
    /\ Len(content) >= Len(e) + 2
    /\ content[1] = "["
    /\ content[Len(e) + 2] = "]"
    /\ \A i \in 1..Len(e) : ToLowerCh(content[i + 1]) = e[i]

AfterTag(content, e) == SubSeq(content, Len(e) + 3, Len(content))

RefDefault(d) == IF d = <<>> THEN <<"n","e","u","t","r","a","l">> ELSE d

Parsed == pResult # <<>>

AllIdle == \A s \in Senders : spc[s] = "idle"

Texts_(q) == [i \in 1..Len(q) |-> q[i].Text]

IsPrefix(a, b) == Len(a) <= Len(b) /\ a = SubSeq(b, 1, Len(a))

\* the frames connection c has received, in order
Received(c) ==
    LET got == SelectSeq(delivered, LAMBDA d : c \in d.to)
    IN  [i \in 1..Len(got) |-> got[i].text]

\* some earlier broadcast reached a client
HadBroadcast == \E i \in 1..Len(delivered) : delivered[i].to # {}

\* this step is a broadcast that reaches at least one client
BroadcastReaches == wpc = "bcast" /\ wpc' = "wait"

-----------------------------------------------------------------------------
(* Properties *)

\* C1: while a client stays connected and no 30 s timeout fires, between two
\* consecutive broadcasts that each reached a client a tts_complete frame is
\* received after the earlier one.
C1_OnePayloadPerTTS ==
    [][ (BroadcastReaches /\ HadBroadcast /\ ~since.timeout /\ ~since.noClient)
        => since.tts ]_vars

\* C5: a Send call is never at a step it cannot take: its receive in the
\* overflow branch never finds the queue empty and its send never finds it full.
C5_SendNeverBlocks ==
    \A s \in Senders :
        /\ ~(spc[s] = "drop" /\ sendQueue = <<>>)
        /\ ~(spc[s] = "put" /\ Len(sendQueue) >= queueSize)

\* C6: with no consumer, after k sequential Send calls the queue holds exactly
\* the last min(k, capacity) payloads in Send order.
C6_DropOldest ==
    (~WorkerConsumed /\ ~overlap /\ AllIdle) =>
        LET k == nCalls
            n == Min(k, queueSize)
        IN  Texts_(sendQueue) = [i \in 1..n |-> MsgText(k - n + i)]

C6_Witness ==
    /\ ~WorkerConsumed /\ ~overlap /\ AllIdle
    /\ nCalls = 3
    /\ queueSize = 2
    /\ Texts_(sendQueue) = <<MsgText(2), MsgText(3)>>

\* the state of scenario E3: a started channel with max_queue_size 2, three
\* Send calls m1, m2, m3 made with no client, then the first client registered
ScenarioE3 ==
    /\ queueSize = 2
    /\ nCalls = 3
    /\ ~sentEarly /\ ~overlap
    /\ firstClient.conn # "none"
    /\ firstClient.sends = 3

\* C7 as stated: in scenario E3 the first frame the client receives is m2 and
\* the second is m3.
C7_E3AsStated ==
    ScenarioE3 => IsPrefix(Received(firstClient.conn), <<MsgText(2), MsgText(3)>>)

\* C7: in scenario E3, if the sendWorker took nothing from the queue before the
\* client was registered, the first frame the client receives is m2 and the
\* second is m3, and it never receives m1.
C7_E3WhenWorkerIdle ==
    (ScenarioE3 /\ firstClient.quiet) =>
        IsPrefix(Received(firstClient.conn), <<MsgText(2), MsgText(3)>>)

C7_Witness ==
    /\ ScenarioE3 /\ firstClient.quiet
    /\ Received(firstClient.conn) = <<MsgText(2), MsgText(3)>>

\* C8: every queued payload has role "assistant", type "message" and one of the
\* six recognised emotions.
C8_PayloadWellFormed ==
    \A i \in 1..Len(sendQueue) :
        /\ sendQueue[i].Role = "assistant"
        /\ sendQueue[i].Type = "message"
        /\ sendQueue[i].Emotion \in RecognisedEmotions

IsTagged(content, e, t) == content = <<"[">> \o e \o <<"]", " ">> \o t

\* C10 as stated: for every recognised e and every t not starting with "[",
\* parseEmotion("[" + e + "] " + t, d) = (t, e).
C10_RoundTripAnyText ==
    Parsed =>
        \A e \in RecognisedEmotions, t \in Texts :
            (IsTagged(pContent, e, t) /\ (t = <<>> \/ t[1] # "["))
                => pResult = <<t, e>>

\* C10: for every recognised e and every t that does not start with "[" and has
\* no leading or trailing white space (the empty t included),
\* parseEmotion("[" + e + "] " + t, d) = (t, e).
C10_RoundTripTrimmedText ==
    Parsed =>
        \A e \in RecognisedEmotions, t \in Texts :
            (IsTagged(pContent, e, t) /\ (t = <<>> \/ t[1] # "[")
             /\ RefTrimBoth(t) = t)
                => pResult = <<t, e>>

C10_Witness ==
    /\ Parsed
    /\ IsTagged(pContent, <<"s","a","d">>, <<"x", "]">>)
    /\ pResult = << <<"x", "]">>, <<"s","a","d">> >>

\* the step is the Stop call that ends a started channel
StopsNow == aPhase = "started" /\ aPhase' = "stopped"

\* the channel was never started or is stopped, and no client is registered
Quiescent == aPhase \in {"created", "stopped"} /\ clients = {}

\* what Stop assigns is what the channel already holds
StopChangesNothing ==
    /\ CloseAll(clients, conn) = conn
    /\ ~aRunning
    /\ ~serverUp
    /\ (ctxDone \/ aPhase # "created") = ctxDone

\* C11: the Stop that ends a started channel closes every registered
\* connection, empties clients, clears running and cancels the worker context;
\* a Stop before Start or after that Stop (no client registered) changes nothing.
C11_StopClosesAll ==
    [][ /\ StopsNow => /\ clients' = {}
                       /\ \A c \in clients : conn'[c] = "closed"
                       /\ ~aRunning'
                       /\ ctxDone'
        /\ Quiescent' => StopChangesNothing' ]_vars

\* Stop closed a registered connection (no broadcast ever failed on it and its
\* readPump has not yet seen the close)
C11_Witness ==
    /\ aPhase = "stopped"
    /\ delivered = <<>>
    /\ \E c \in Conns : conn[c] = "closed" /\ rpump[c] = "reading"

\* the step is the read error that ends the readPump of c
ReadFails(c) == rpump[c] = "reading" /\ rpump'[c] = "done"

\* the step is a broadcastJSON call of the sendWorker
Broadcasts == Len(delivered') = Len(delivered) + 1

\* C12: a read error on c removes and closes c and touches no other connection;
\* a broadcast closes and removes the connections whose write failed, while
\* every other registered connection stays open and registered and receives
\* the payload; a payload is only ever written to open registered connections.
C12_FailureIsolation ==
    [][ /\ \A c \in Conns : ReadFails(c) =>
              /\ clients' = clients \ {c}
              /\ conn'[c] = "closed"
              /\ \A o \in Conns \ {c} : conn'[o] = conn[o]
        /\ Broadcasts =>
              LET to == delivered'[Len(delivered')].to
              IN  /\ \A c \in clients :
                        /\ conn[c] = "open"
                        /\ conn'[c] \in {"open", "closed"}
                        /\ conn'[c] = "open" => c \in clients' /\ c \in to
                        /\ conn'[c] = "closed" => c \notin clients' /\ c \notin to
                  /\ to \subseteq clients
                  /\ clients' \subseteq clients
                  /\ \A c \in Conns \ clients : conn'[c] = conn[c] ]_vars

\* a write failed on c1 during a broadcast that reached c2
C12_Witness ==
    /\ aPhase = "started"
    /\ delivered # <<>>
    /\ delivered[Len(delivered)].to = {"c2"}
    /\ conn["c1"] = "closed" /\ rpump["c1"] = "reading"
    /\ conn["c2"] = "open" /\ "c2" \in clients

-----------------------------------------------------------------------------
(* Properties of preFilter and selectComments *)

\* no filter rule is configured
NoRule(cfg) ==
    /\ cfg.NGWords = <<>>
    /\ cfg.MinMessageLength = 0
    /\ cfg.MaxRepeatRatio.num = 0
    /\ ~cfg.BlockURLs

\* C13: with ng_words empty, min_message_length = 0, max_repeat_ratio = 0 and
\* block_urls = false, preFilter returns its input: same elements, same order.
C13_IdentityWithoutRules ==
    (fOut.done /\ NoRule(fConfig)) => fOut.items = fItems

\* preFilter ran without a rule on two items, one of them with an empty text
C13_Witness ==
    /\ fOut.done /\ NoRule(fConfig)
    /\ Len(fItems) = 2
    /\ TextOf(fItems[1]) = <<>>
    /\ TextOf(fItems[2]) = <<"a","a">>

\* C14: whatever the filter configuration, no message with an empty text is in
\* the output of preFilter.
C14_NoEmptyText ==
    fOut.done => \A i \in 1..Len(fOut.items) : TextOf(fOut.items[i]) # <<>>

\* the text contains word, compared without regard to case
ContainsFold(text, word) ==
    \E i \in 1..(Len(text) + 1) : \E j \in (i - 1)..Len(text) :
        ToLower(SubSeq(text, i, j)) = ToLower(word)

\* the number of positions of text that hold the rune ch
Occurrences(text, ch) == Cardinality({i \in 1..Len(text) : text[i] = ch})

\* a rule of cfg triggers on text
RuleTriggers(text, cfg) ==
    \/ \E k \in DOMAIN cfg.NGWords : ContainsFold(text, cfg.NGWords[k])
    \/ Len(text) < cfg.MinMessageLength
    \/ cfg.BlockURLs /\ \E u \in {httpPrefix, httpsPrefix} :
          \E i \in 1..(Len(text) - Len(u) + 1) : SubSeq(text, i, i + Len(u) - 1) = u
    \/ cfg.MaxRepeatRatio.num > 0 /\ \E i \in DOMAIN text :
          Occurrences(text, text[i]) * cfg.MaxRepeatRatio.den
             > cfg.MaxRepeatRatio.num * Len(text)

\* the message survives: its text is not empty and triggers no rule
Survives(m) == TextOf(m) # <<>> /\ ~RuleTriggers(TextOf(m), fConfig)

\* C15: with at least one rule configured, preFilter returns exactly the
\* messages whose text is not empty and triggers no rule, in input order; the
\* length rule counts runes.
C15_FilterReference ==
    (fOut.done /\ ~NoRule(fConfig)) => fOut.items = SelectSeq(fItems, Survives)

\* a one-rune, two-byte text was dropped by min_message_length = 2 and the
\* other item was kept
C15_Witness ==
    /\ fOut.done
    /\ fConfig.MinMessageLength = 2
    /\ Len(fItems) = 2
    /\ TextOf(fItems[1]) = <<"é">>
    /\ fOut.items = <<fItems[2]>>

\* C16: selectComments returns its input when max_comments_per_poll <= 0, and
\* otherwise min(|xs|, max) elements of xs taken from distinct positions; the
\* input slice still holds what it held.
C16_SelectSize ==
    sOut.done =>
        LET max == sConfig.MaxCommentsPerPoll
            out == sOut.msgs
        IN  /\ max <= 0 => out = sMsgs
            /\ max > 0 =>
                  /\ Len(out) = Min(Len(sMsgs), max)
                  /\ \A k \in 1..Len(out) :
                        out[k].ID \in 1..Len(sMsgs) /\ out[k] = sMsgs[out[k].ID]
                  /\ \A k, l \in 1..Len(out) : k # l => out[k].ID # out[l].ID
            /\ \A i \in 1..Len(sMsgs) : sMsgs[i].ID = i

\* the random strategy cut three messages down to two and put the last first
C16_Witness ==
    /\ sOut.done
    /\ sConfig.SelectionStrategy = "random"
    /\ sConfig.MaxCommentsPerPoll = 2
    /\ Len(sMsgs) = 3
    /\ sOut.msgs[1].ID = 3

\* C17: with strategy latest, unset or unknown and max = N > 0, selectComments
\* returns the last min(|xs|, N) elements of xs in input order.
C17_LatestKeepsTail ==
    (/\ sOut.done
     /\ sConfig.SelectionStrategy \notin {"priority", "random"}
     /\ sConfig.MaxCommentsPerPoll > 0) =>
        LET k == Min(Len(sMsgs), sConfig.MaxCommentsPerPoll)
        IN  /\ Len(sOut.msgs) = k
            /\ \A j \in 1..k : sOut.msgs[j] = sMsgs[Len(sMsgs) - k + j]

\* an unknown strategy cut three messages down to the last two
C17_Witness ==
    /\ sOut.done
    /\ sConfig.SelectionStrategy = "newest"
    /\ sConfig.MaxCommentsPerPoll = 2
    /\ Len(sMsgs) = 3
    /\ sOut.msgs = <<sMsgs[2], sMsgs[3]>>

\* C18: with strategy priority the result never has a non-prioritized message
\* before a prioritized one, and for max = N > 0 it is the first min(|xs|, N)
\* elements of the prioritized messages followed by the normal ones, each group
\* in input order.
C18_PriorityFirst ==
    (sOut.done /\ sConfig.SelectionStrategy = "priority") =>
        LET out == sOut.msgs
            ordered == SelectSeq(sMsgs, Prioritized)
                       \o SelectSeq(sMsgs, LAMBDA m : ~Prioritized(m))
        IN  /\ \A i, j \in 1..Len(out) :
                  i < j => ~(~Prioritized(out[i]) /\ Prioritized(out[j]))
            /\ sConfig.MaxCommentsPerPoll > 0 =>
                  out = SubSeq(ordered, 1, Min(Len(sMsgs), sConfig.MaxCommentsPerPoll))

-----------------------------------------------------------------------------
(* Properties of the ingestion channel *)

\* the main polling tasks: the scrape poll loop and the REST poll loop
PollKinds == {"innerTubePollLoop", "pollLoop"}

\* Stop has returned and Start has not been called since, before and after the step
StaysStopped == yPhase = "stopped" /\ yPhase' = "stopped"

\* a goroutine launched by the step is a main polling task
LaunchesPolling ==
    \E t \in (Len(yt.tasks) + 1)..Len(yt'.tasks) : yt'.tasks[t].kind \in PollKinds

\* a reconnect loop leaves its timer to make a resolve attempt
BeginsResolve ==
    \E t \in Tasks : /\ yt.tasks[t].kind = "reconnect"
                      /\ yt.tasks[t].pc = "wait"
                      /\ yt'.tasks[t].pc = "resolve"

\* C2: once Stop has returned (and until Start is called again) no reconnect
\* loop, whether launched by Start or by onStreamEnded, begins another resolve
\* attempt or calls connectToLiveChat.
C2_StopEndsReconnectLoop ==
    [][StaysStopped => (~BeginsResolve /\ yt'.connects = yt.connects)]_vars

\* C3: after Stop has returned and until Start is called again, running stays
\* false, no polling context and no polling task is created, and no
\* InboundMessage is published.
C3_StaysStopped ==
    [][StaysStopped =>
          /\ ~yt'.running
          /\ Len(yt'.ctxParent) = Len(yt.ctxParent)
          /\ ~LaunchesPolling
          /\ yt'.published = yt.published]_vars

\* polling tasks that have not returned and whose context is not cancelled
ActivePolls ==
    {t \in Tasks : yt.tasks[t].kind \in PollKinds /\ ~CtxDone(yt, yt.tasks[t].ctx)}

\* C4: in every reachable state at most one main polling task is active, a
\* task counting as active until it returns or its context is cancelled (so a
\* polling task is launched only after its predecessor's context is cancelled).
C4_AtMostOnePollingTask == Cardinality(ActivePolls) <= 1

-----------------------------------------------------------------------------
(* Properties of the accumulation and of the cursors *)

\* the last batch left flushLoop no sooner than min_accumulate_seconds after
\* its first comment was buffered
BatchWaitedMin ==
    acc.lastBatch # NoBatch => acc.lastBatch.at - acc.lastBatch.first >= acc.cfg.min

\* while flushLoop runs, no comment has been in the buffer for longer than
\* max_accumulate_seconds
NoCommentOverdue ==
    (~acc.cancelled /\ acc.pc # "done") =>
        \A i \in 1..Len(acc.commentBuffer) :
            acc.now - acc.commentBuffer[i] <= acc.cfg.max

\* C19: for every pair (min_accumulate_seconds, max_accumulate_seconds), with
\* or without a TTS-ready signal, no batch is dispatched earlier than min
\* seconds after its first comment was buffered and no comment stays buffered
\* for more than max seconds while the channel runs.
C19_AccumulationTiming == BatchWaitedMin /\ NoCommentOverdue

\* the step is one pollOnce of the main REST poll
MainPolls == tok.main = "fetch" /\ tok'.main # "fetch"

\* the step is one fetch of the super-chat sub-poll
SubPolls == tok.sub = "fetch" /\ tok'.sub # "fetch"

\* the step is a connection setup that launches the main REST poll
LaunchesMainPoll == tok.main = "off" /\ tok'.main = "fetch"

\* C20: the main REST poll sends nextPageToken and leaves superChatPageToken
\* alone, the sub-poll sends superChatPageToken and leaves nextPageToken alone;
\* nextPageToken changes only in a main poll or a connection setup, and
\* superChatPageToken only in a sub-poll.
C20_CursorSeparation ==
    [][ /\ MainPolls => /\ tok'.mainRequest = tok.nextPageToken
                        /\ tok'.superChatPageToken = tok.superChatPageToken
                        /\ tok'.subRequest = tok.subRequest
        /\ SubPolls => /\ tok'.subRequest = tok.superChatPageToken
                       /\ tok'.nextPageToken = tok.nextPageToken
                       /\ tok'.mainRequest = tok.mainRequest
        /\ tok'.nextPageToken # tok.nextPageToken => MainPolls \/ LaunchesMainPoll
        /\ tok'.superChatPageToken # tok.superChatPageToken => SubPolls ]_vars

\* both tasks have sent their own cursor while the two cursors differ
C20_Witness ==
    /\ tok.nextPageToken = "p1" /\ tok.mainRequest = "p1"
    /\ tok.superChatPageToken = "p2" /\ tok.subRequest = "p2"

-----------------------------------------------------------------------------
(* Properties of handleAPIError, Send and NewYouTubeChannel *)

\* the message names the end of the stream
NamesStreamEnd(e) ==
    Contains(e.Message, noLongerLive) \/ Contains(e.Message, liveChatEnded)

\* C21: handleAPIError returns true for every error with code 404 and for
\* every error with code 403 whose message contains "no longer live" or
\* "liveChatEnded", and false for every other error.
C21_StreamEndClassification ==
    api.done =>
        (api.ended <=> (api.err.Code = 404
                        \/ (api.err.Code = 403 /\ NamesStreamEnd(api.err))))

\* the step is one call of Send
Sends == snd'.calls = snd.calls + 1

\* what Send forwards for the reply it was handed
Forwarded == [Channel |-> snd.cfg.ForwardChannel, ChatID |-> snd.cfg.ForwardChatID,
              Content |-> snd'.last.Content]

\* Send returns nil and touches nothing of the ingestion channel
SendIsQuiet == snd'.ret = "nil" /\ snd'.cfg = snd.cfg /\ UNCHANGED <<ytVars, acc, tok>>

\* C22 as stated: whenever forward_channel is set, Send publishes exactly one
\* OutboundMessage with the forward channel, the forward chat id and the
\* reply's content; otherwise it publishes nothing; it returns no error and
\* changes no ingestion state.
C22_SendAsStated ==
    [][Sends => /\ SendIsQuiet
                /\ snd'.outbound = IF snd.cfg.ForwardChannel # ""
                                   THEN Append(snd.outbound, Forwarded)
                                   ELSE snd.outbound]_vars

\* C22 amended: Send publishes exactly one OutboundMessage (forward channel,
\* forward chat id, the reply's content) when forward_channel and
\* forward_chat_id are both set, and nothing when either is empty; it returns
\* no error and changes no ingestion state.
C22_SendForwards ==
    [][Sends => /\ SendIsQuiet
                /\ snd'.outbound = IF snd.cfg.ForwardChannel # "" /\ snd.cfg.ForwardChatID # ""
                                   THEN Append(snd.outbound, Forwarded)
                                   ELSE snd.outbound]_vars

\* one reply addressed to the live chat was forwarded to the forward channel
C22_Witness ==
    /\ snd.calls = 1
    /\ snd.last.ChatID = "livechat123"
    /\ snd.outbound = <<[Channel |-> "discord", ChatID |-> "999",
                         Content |-> "Hello from AI"]>>

\* the configuration lacks a required key combination
LacksRequiredKeys(cfg) ==
    \/ PrimaryTransport(Defaulted(cfg)) = "rest" /\ cfg.APIKey = ""
    \/ cfg.VideoID = "" /\ cfg.ChannelID = ""

\* C23: NewYouTubeChannel returns an error if and only if the REST transport
\* is the chat source and api_key is empty, or video_id and channel_id are
\* both empty; so a constructed channel whose primary transport is REST has an
\* api_key, and a scrape channel without api_key is accepted.
C23_ConstructionValidation ==
    ctor.done =>
        /\ ctor.err <=> LacksRequiredKeys(ctor.cfg)
        /\ (~ctor.err /\ PrimaryTransport(ctor.config) = "rest") => ctor.config.APIKey # ""

-----------------------------------------------------------------------------
(* Properties of reconnectLoop *)

\* the waits of a run that only misses, in seconds
NominalWaits == <<60, 120, 240, 300>>

\* the wait after n misses
NominalWait(n) == NominalWaits[Min(n, Len(NominalWaits) - 1) + 1]

\* C24: the wait before the first attempt of a run is 60 s, each miss doubles
\* it up to the cap of 300 s (60, 120, 240, 300, 300, ...), it always lies
\* within [60 s, 300 s] and never decreases.
C24_ReconnectBackoff ==
    /\ rc.interval = NominalWait(rc.misses)
    /\ rc.interval >= 60 /\ rc.interval <= 300
    /\ rc.waited # <<>> => rc.waited[1] = 60
    /\ \A i \in 1..(Len(rc.waited) - 1) : rc.waited[i] <= rc.waited[i + 1]

\* a run has missed five times and waited 60, 120, 240, 300 and 300 seconds
C24_Witness ==
    /\ rc.misses = 5
    /\ rc.waited = <<60, 120, 240, 300, 300>>

\* C25: within one run of reconnectLoop the search.list fallback is invoked
\* at most once, whatever resolution and connectToLiveChat answer.
C25_SearchAtMostOnce == rc.searches <= 1

-----------------------------------------------------------------------------
(* Properties of the REST polling session *)

\* C26: whenever onStreamEnded launches a reconnect loop, at that moment the
\* comment buffer is empty, the polling context is cancelled, running is false
\* and the video id is empty; without channel_id no reconnect loop is launched.
C26_StreamEndOrdering ==
    /\ \A i \in 1..Len(ses.launches) :
          /\ ses.launches[i].commentBuffer = <<>>
          /\ ses.launches[i].pollCancelled
          /\ ~ses.launches[i].running
          /\ ses.launches[i].VideoID = ""
    /\ ses.ChannelID = "" => ses.launches = <<>>

\* the comments handed to the drains so far, in order
RECURSIVE DrainedItems(_)
DrainedItems(ds) ==
    IF ds = <<>> THEN <<>> ELSE Head(ds).items \o DrainedItems(Tail(ds))

\* every comment buffered so far is in exactly one place: one drain or the buffer
ExactlyOnce ==
    LET all == DrainedItems(ses.drains) \o ses.commentBuffer
    IN  \A id \in 1..ses.appended :
            Cardinality({i \in 1..Len(all) : all[i] = id}) = 1

\* the step is a flush or a discard
Drains == Len(ses'.drains) = Len(ses.drains) + 1

\* C27: whatever the interleaving of appendToBuffer, flushCommentBuffer and
\* discardBuffer, every buffered comment is handed to exactly one drain or is
\* still in the buffer, and a flush or discard takes the whole buffer and
\* leaves it empty.
C27_AtomicDrain ==
    [][/\ ExactlyOnce'
       /\ Drains => /\ ses'.drains[Len(ses'.drains)].items = ses.commentBuffer
                    /\ ses'.commentBuffer = <<>>]_vars

\* one comment left in a flush and a later one in a discard
C27_Witness ==
    /\ Len(ses.drains) = 2
    /\ ses.drains[1] = [kind |-> "flush", items |-> <<1>>]
    /\ ses.drains[2] = [kind |-> "discard", items |-> <<2>>]

\* the step is one pollOnce of the poll task
Polls == ses.tasks[1].pc = "poll" /\ ses'.tasks[1].pc # "poll"

\* the error is a stream-end signal: 404, or 403 naming the end of the stream
StreamEndSignal(e) == e.Code = 404 \/ (e.Code = 403 /\ NamesStreamEnd(e))

\* the answer is a transport or parse error, or an API error that is not a
\* stream-end signal
Tolerated(resp) ==
    resp.kind = "err" \/ (resp.kind = "api" /\ ~StreamEndSignal(resp.err))

\* C30: a poll that ends in a transport or parse error or in an API error
\* that is not a stream-end signal leaves next_page_token, live_chat_id,
\* running and the comment buffer unchanged, publishes nothing, and the loop
\* goes on to the next tick; a poll ends the loop only on a stream-end signal.
C30_PollErrorTolerance ==
    [][Polls =>
         /\ Tolerated(ses'.tasks[1].resp) =>
               /\ ses'.nextPageToken = ses.nextPageToken
               /\ ses'.liveChatID = ses.liveChatID
               /\ ses'.running = ses.running
               /\ ses'.commentBuffer = ses.commentBuffer
               /\ ses'.published = ses.published
               /\ ses'.drains = ses.drains
               /\ ses'.tasks[1].pc = "select"
         /\ ses'.tasks[1].pc # "select" =>
               /\ ses'.tasks[1].resp.kind = "api"
               /\ StreamEndSignal(ses'.tasks[1].resp.err)]_vars

\* a poll got 401 while a comment was buffered and a page token stored, and
\* the task waits for the next tick
C30_Witness ==
    /\ ses.tasks[1].pc = "select"
    /\ ses.tasks[1].resp.kind = "api" /\ ses.tasks[1].resp.err.Code = 401
    /\ ses.commentBuffer = <<1>>
    /\ ses.nextPageToken = "p1"
    /\ ses.running

-----------------------------------------------------------------------------
(* Properties of the dispatch *)

\* C28: every InboundMessage published for a single comment has a sender the
\* allow-list admits (the list is empty or contains it); a batch is one
\* InboundMessage that contains all selected comments whatever the
\* allow-list; nothing else is published.
C28_AllowListByPath ==
    dsp.done =>
        \A i \in 1..Len(dsp.inbound) :
            LET m == dsp.inbound[i]
            IN  IF m.batch
                THEN /\ Len(dsp.inbound) = 1
                     /\ m.items = dsp.selected
                ELSE /\ Len(m.items) = 1
                     /\ m.SenderID = m.items[1].ChannelID
                     /\ dsp.AllowFrom = {} \/ m.SenderID \in dsp.AllowFrom

\* with an allow-list, the comment of an admitted sender was published and the
\* one of another sender was not
C28_Witness ==
    /\ dsp.done
    /\ dsp.AllowFrom = {"UCa"}
    /\ Len(dsp.selected) = 2
    /\ dsp.selected[1].ChannelID = "UCb" /\ dsp.selected[1].Text = "hi"
    /\ dsp.selected[1].Type = "textMessageEvent"
    /\ Len(dsp.inbound) = 1
    /\ dsp.inbound[1].SenderID = "UCa"

-----------------------------------------------------------------------------
(* Properties of the scrape poll loop *)

\* the number of errors at the end of the fetches, back to the last fetch
\* that succeeded
RECURSIVE TrailingErrors(_)
TrailingErrors(fetched) ==
    IF fetched = <<>> \/ fetched[Len(fetched)] # "err" THEN 0
    ELSE 1 + TrailingErrors(SubSeq(fetched, 1, Len(fetched) - 1))

\* the events of the loop so far
LoopEvents == {itl.events[i] : i \in 1..Len(itl.events)}

\* C29: the scrape poll loop falls back to REST exactly when 5 fetches in a
\* row have failed with no successful fetch between them; a successful
\* fetch, with or without messages, resets the count to 0 (the count is the
\* number of errors since the last success, until ErrLiveStreamOver ends the
\* loop); the polling context is cancelled before the REST poll loop is
\* started.
C29_FallbackThreshold ==
    /\ (itl.fetched = <<>> \/ itl.fetched[Len(itl.fetched)] # "over") =>
            itl.consecutiveErrors = TrailingErrors(itl.fetched)
    /\ itl.consecutiveErrors <= 5
    /\ (itl.pc = "fallback") => itl.consecutiveErrors = 5
    /\ (itl.pc \in {"fetch", "sleep"}) => itl.consecutiveErrors < 5
    /\ ("pollLoop" \in LoopEvents) => itl.consecutiveErrors = 5
    /\ (itl.pc = "returned" /\ itl.consecutiveErrors = 5) =>
            \E i \in 1..Len(itl.events) : itl.events[i] \in {"pollLoop", "streamEnded"}
    /\ \A i \in 1..Len(itl.events) :
            itl.events[i] = "pollLoop" =>
                \E j \in 1..(i - 1) : itl.events[j] = "cancel"

\* an error, a fetch without messages, then five errors in a row and the REST
\* poll loop started
C29_Witness ==
    /\ Len(itl.fetched) = 7
    /\ itl.fetched[1] = "err"
    /\ itl.fetched[2] = "none"
    /\ TrailingErrors(itl.fetched) = 5
    /\ itl.pc = "returned"
    /\ itl.running
    /\ itl.events = <<"cancel", "pollLoop">>

\* a batch was published
BatchPublished == \E i \in 1..Len(dsp.inbound) : dsp.inbound[i].batch

\* C31: a flush of the drained buffer dispatches as the pipeline without
\* accumulation does: one batched InboundMessage if and only if
\* batch_comments is true and more than one comment was selected, otherwise
\* comment by comment through processMessage.
C31_FlushDispatchRule ==
    (dsp.done /\ dsp.path = "flush") =>
        /\ BatchPublished <=> (dsp.BatchComments /\ Len(dsp.selected) > 1)
        /\ dsp.inbound = DispatchPoll(<<>>, dsp.AllowFrom, dsp.BatchComments, dsp.selected)

-----------------------------------------------------------------------------
(* Properties of the super-chat sub-poll *)

\* a step of the sub-poll
SubPollStep == sc'.sub # sc.sub

\* C32: the sub-poll hands on super chats only, and when it returns on
\* quota-exceeded or on another API error the scrape loop, the flushLoop, the
\* polling context, running, liveChatID and nextPageToken are as before and
\* the scrape loop goes on polling.
C32_SubPollIsolation ==
    [][ /\ SubPollStep =>
             /\ sc'.main = sc.main /\ sc'.flush = sc.flush
             /\ sc'.ctxDone = sc.ctxDone /\ sc'.running = sc.running
             /\ sc'.liveChatID = sc.liveChatID
             /\ sc'.nextPageToken = sc.nextPageToken
             /\ sc'.mainFetches = sc.mainFetches
        /\ \A i \in 1..Len(sc'.published) : sc'.published[i] = "superChatEvent"
        /\ (SubPollStep /\ sc'.stopped \in {"quota", "ended"} /\ sc.main = "fetch"
              /\ ~sc.ctxDone) =>
             (sc'.main = "fetch" /\ sc'.running /\ ~sc'.ctxDone)
      ]_vars

\* the sub-poll has returned on quota-exceeded and the scrape loop has fetched
\* since, with the session running
C32_Witness ==
    /\ sc.stopped = "quota"
    /\ sc.mainFetches = MaxMainFetches
    /\ sc.main = "fetch" /\ sc.flush = "wait"
    /\ sc.running /\ ~sc.ctxDone
    /\ sc.published = <<"superChatEvent">>

-----------------------------------------------------------------------------
(* Properties of fetchInnerTubeChat *)

CtxErrReturn(n) == ft.returns[n].kind = "ctxErr"

\* the helper of the i-th call is at pc
HelperAt(i, pc) == i <= Len(ft.helpers) /\ ft.helpers[i].pc = pc

C33_Safe ==
    /\ \A n \in 1..Len(ft.returns) :
          /\ CtxErrReturn(n) => ft.returns[n].after = ft.returns[n].before
          /\ (ft.returns[n].cancelledFirst /\ ft.returns[n].helper = "fetching")
                => CtxErrReturn(n)
    /\ \A i \in 1..Len(ft.helpers) :
          /\ ft.helpers[i].sends <= 1
          /\ Len(ft.helpers[i].buf) <= 1
          /\ ft.helpers[i].pc = "exited" <=> ft.helpers[i].sends = 1

-----------------------------------------------------------------------------
(* Progress of the sendWorker *)

\* the payload of the i-th Send call is in the queue
Queued(i) == \E k \in 1..Len(sendQueue) : sendQueue[k].Text = MsgText(i)

\* the sendWorker has broadcast the payload of the i-th Send call
Broadcast(i) == \E k \in 1..Len(delivered) : delivered[k].text = MsgText(i)

\* the sendWorker has received the payload and is about to broadcast it
InHand(i) == wpc = "bcast" /\ wmsg.Text = MsgText(i)

\* the payload left the queue in the overflow branch of a Send
Discarded(i) == ~Queued(i) /\ ~Broadcast(i) /\ ~InHand(i)

\* what the sendWorker does after a broadcast and how it leaves the wait
WorkerResumes ==
    /\ (wpc = "bcast" /\ wpc' # "bcast") =>
          wpc' = IF clients' = {} THEN "select" ELSE "wait"
    /\ (wpc = "wait" /\ wpc' # "wait") =>
          \/ wpc' = "select" /\ ttsDone = 1 /\ ttsDone' = 0
          \/ wpc' = "select" /\ since'.timeout
          \/ wpc' = "done" /\ ctxDone

\* C34: after a broadcast that reached a client the sendWorker resumes on
\* tts_complete, on the 30 s timeout or on cancellation, and after one that
\* reached no client at once; so while the context is not cancelled every
\* payload that stays in the queue is received and broadcast in the end,
\* with no tts_complete from any client.
C34_WorkerProgress ==
    /\ [][WorkerResumes]_vars
    /\ \A i \in 1..MaxSends :
          []((Queued(i) /\ wpc # "off") => <>(ctxDone \/ Broadcast(i) \/ Discarded(i)))

\* three payloads were broadcast to a client that never sent tts_complete
C34_Witness ==
    /\ Len(delivered) = 3
    /\ \A k \in 1..3 : delivered[k].to = {"c1"}
    /\ ttsDone = 0 /\ ~since.tts
    /\ ~ctxDone

-----------------------------------------------------------------------------
(* Properties of the wait sites *)

\* C35: every wait of an ingestion task (here the 10 s / 20 s / 40 s retry
\* wait of the scrape initialization) ends at once when the governing
\* context is cancelled: the task does not sleep on and makes no further
\* fetch.
C35_WaitsInterruptible ==
    /\ ini.overslept = 0
    /\ (ini.parses > 1) => ini.lateParses = 0

-----------------------------------------------------------------------------
(* Properties of the accumulation across the fallback *)

\* C36: while the channel polls, a buffer that is not empty is drained by a
\* flushLoop in the end, with no further comment arriving, also when the
\* fallback cancels one flushLoop and starts another while comments are
\* buffered.
C36_NeverStranded ==
    [](fb.commentBuffer > 0 => <>(fb.commentBuffer = 0))

-----------------------------------------------------------------------------
(* The reconnect loop and the main poll *)

\* reconnect loops that wait or resolve and whose context is not cancelled
ActiveReconnects ==
    {t \in Tasks : /\ yt.tasks[t].kind = "reconnect"
                   /\ yt.tasks[t].pc \in {"wait", "resolve"}
                   /\ ~CtxDone(yt, yt.tasks[t].ctx)}

\* C37: while a reconnect loop waits or resolves, no main polling task of the
\* channel is active and running is false.
C37_ReconnectExcludesPoll ==
    ActiveReconnects # {} => (ActivePolls = {} /\ ~yt.running)

-----------------------------------------------------------------------------
(* Overflow of the avatar queue and the clients after Stop *)

\* the step is the receive of the overflow branch of a Send
SendDiscards == \E s \in Senders : spc[s] = "drop" /\ spc'[s] = "put"

\* C38: whenever a Send takes a payload out of the queue without
\* broadcasting it, the queue is full at that moment, and a Send discards at
\* most one payload.
C38_DiscardOnlyWhenFull ==
    [][SendDiscards =>
          /\ Len(sendQueue) = queueSize
          /\ Len(sendQueue') = Len(sendQueue) - 1]_vars

\* C39: once Stop has returned, and until Start is called again, the clients
\* set is empty and no connection is open and registered, whatever the
\* interleaving of Stop with an upgrade in progress and with the clean-up of
\* readPump.
C39_NoClientAfterStop ==
    aPhase = "stopped" =>
        /\ clients = {}
        /\ \A c \in Conns : conn[c] # "open"

-----------------------------------------------------------------------------
(* Properties of the live chat id *)

\* C40: whenever the REST poll or the super-chat sub-poll sends a query, its
\* live chat id was obtained for the video resolved at that time, or is the
\* configured one; it is never one kept from a stream that has ended.
C40_LiveChatIDFresh ==
    \A q \in lcv.queries :
        \/ q.chat.configured
        \/ q.chat.video = q.video
        \/ q.chat = NoChatID      \* the video was reported without active chat

====
